---- MODULE Spec2Model ----
(***************************************************************************)
(* A model of obsd (src/src/index.ts, lines 1-981): a command-line tool    *)
(* that scaffolds, archives and status-marks notes in a PARA vault.        *)
(*                                                                         *)
(* Strings are sequences of tokens.  A token is a one-character string     *)
(* for everything the code inspects character by character (letters,       *)
(* "_", "-", "{", "}", "|", "/", " ", "\n") and an atomic word otherwise   *)
(* (".md", "- status/", "status: ", "tags:", root names).                  *)
(* A file name is a string, a path is a sequence of file names relative    *)
(* to config.vaultPath.                                                    *)
(***************************************************************************)
EXTENDS Integers, Sequences, FiniteSets, TLC

VARIABLES
    config,      \* the parsed templates.yml of this installation
    dirs,        \* the directories of the vault (paths)
    files,       \* the files of the vault: path -> [origin, text]; origin is
                 \* history, the path `new` wrote the file at
    procs        \* the invocations followed call by call: a sequence of
                 \* [command line, position, what the process holds in memory]

vars == <<config, dirs, files, procs>>

(***************************************************************************)
(* String primitives (JavaScript String methods on token sequences)        *)
(***************************************************************************)
Min(a, b) == IF a < b THEN a ELSE b

StartsWith(s, p) == Len(p) <= Len(s) /\ SubSeq(s, 1, Len(p)) = p

Includes(s, c) == \E i \in 1..Len(s) : s[i] = c

\* s.substring(a, b), zero-based, end exclusive, clamped to the length
Substring(s, a, b) == SubSeq(s, a + 1, Min(b, Len(s)))

\* s.indexOf(pat) + 1, 0 when pat does not occur
IndexOf(s, pat) ==
    LET hits == { i \in 1..(Len(s) - Len(pat) + 1) : SubSeq(s, i, i + Len(pat) - 1) = pat }
    IN  IF hits = {} THEN 0 ELSE CHOOSE i \in hits : \A j \in hits : i <= j

\* s.replace(pat, rep) with a string pattern: the first occurrence only
ReplaceFirst(s, pat, rep) ==
    LET i == IndexOf(s, pat)
    IN  IF i = 0 THEN s
        ELSE SubSeq(s, 1, i - 1) \o rep \o SubSeq(s, i + Len(pat), Len(s))

Whitespace == {" ", "\n"}

RECURSIVE TrimLeft(_)
TrimLeft(s) ==
    IF s # <<>> /\ s[1] \in Whitespace THEN TrimLeft(Tail(s)) ELSE s

RECURSIVE TrimRight(_)
TrimRight(s) ==
    IF s # <<>> /\ s[Len(s)] \in Whitespace THEN TrimRight(SubSeq(s, 1, Len(s) - 1)) ELSE s

Trim(s) == TrimRight(TrimLeft(s))

\* s.split(sep) for a one-token separator: always at least one piece
RECURSIVE Split(_, _)
Split(s, sep) ==
    LET hits == { i \in 1..Len(s) : s[i] = sep }
    IN  IF hits = {} THEN <<s>>
        ELSE LET i == CHOOSE k \in hits : \A j \in hits : k <= j
             IN  <<SubSeq(s, 1, i - 1)>> \o Split(SubSeq(s, i + 1, Len(s)), sep)

(***************************************************************************)
(* slugify                                                                 *)
(***************************************************************************)
Alphabet ==
    << "a", "b", "c", "d", "e", "f", "g", "h", "i", "j", "k", "l", "m",
       "n", "o", "p", "q", "r", "s", "t", "u", "v", "w", "x", "y", "z" >>

LowerLetters == { Alphabet[i] : i \in 1..Len(Alphabet) }
Digits == {"0", "1", "2", "3", "4", "5", "6", "7", "8", "9"}

ToLowerChar(c) ==
    CASE c = "A" -> "a" [] c = "B" -> "b" [] c = "D" -> "d" [] c = "T" -> "t"
      [] c = "U" -> "u"
      [] c = "DONE" -> "done"
      [] OTHER -> c

ToLowerCase(s) == [i \in 1..Len(s) |-> ToLowerChar(s[i])]

\* .replace(/[^a-z0-9]+/g, "-")
RECURSIVE HyphenateRuns(_, _)
HyphenateRuns(s, inRun) ==
    IF s = <<>> THEN <<>>
    ELSE IF s[1] \in LowerLetters \cup Digits
         THEN <<s[1]>> \o HyphenateRuns(Tail(s), FALSE)
         ELSE (IF inRun THEN <<>> ELSE <<"-">>) \o HyphenateRuns(Tail(s), TRUE)

\* .replace(/^-+|-+$/g, "")
RECURSIVE StripLeadingHyphens(_)
StripLeadingHyphens(s) ==
    IF s # <<>> /\ s[1] = "-" THEN StripLeadingHyphens(Tail(s)) ELSE s

RECURSIVE StripTrailingHyphens(_)
StripTrailingHyphens(s) ==
    IF s # <<>> /\ s[Len(s)] = "-"
    THEN StripTrailingHyphens(SubSeq(s, 1, Len(s) - 1)) ELSE s

\* a variant without the last replace: hyphens stay at both ends
slugifyKeepEnds(input) == HyphenateRuns(Trim(ToLowerCase(input)), FALSE)

slugify(input) ==
    StripTrailingHyphens(StripLeadingHyphens(
        HyphenateRuns(Trim(ToLowerCase(input)), FALSE)))

(***************************************************************************)
(* renderTemplate                                                          *)
(***************************************************************************)
\* the length of the longest run of tokens other than "}" starting at s[i]
RECURSIVE KeyRun(_, _)
KeyRun(s, i) ==
    IF i > Len(s) \/ s[i] = "}" THEN 0 ELSE 1 + KeyRun(s, i + 1)

\* /\{\{([^}]+)\}\}/ matches at position i
VarMatchAt(s, i) ==
    LET n == KeyRun(s, i + 2)
    IN  /\ i + 1 <= Len(s)
        /\ s[i] = "{" /\ s[i + 1] = "{"
        /\ n >= 1
        /\ i + 3 + n <= Len(s)
        /\ s[i + 2 + n] = "}" /\ s[i + 3 + n] = "}"

\* what an object literal inherits from Object.prototype, as String.replace
\* turns it into text: two of its members
ObjectPrototype ==
    ( << "constructor" >> :> << "function Object() { [native code] }" >> )
    @@ ( << "toString" >> :> << "function toString() { [native code] }" >> )

\* vars[key] is not undefined: an entry of the literal or an inherited member
HasValue(vs, key) == key \in DOMAIN vs \/ key \in DOMAIN ObjectPrototype

\* vars[key]
Lookup(vs, key) == IF key \in DOMAIN vs THEN vs[key] ELSE ObjectPrototype[key]

\* a variant of the callback: val || def || ""
RenderKeyOr(rawKey, vs) ==
    LET parts == Split(rawKey, "|")
        key   == Trim(parts[1])
    IN  IF HasValue(vs, key) /\ Lookup(vs, key) # <<>> THEN Lookup(vs, key)
        ELSE IF Len(parts) >= 2 THEN Trim(parts[2])
        ELSE <<>>

\* the replacement callback: const [key, def] = rawKey.split("|").map(trim);
\* val ?? def ?? ""
RenderKey(rawKey, vs) ==
    LET parts == Split(rawKey, "|")
        key   == Trim(parts[1])
    IN  IF HasValue(vs, key) THEN Lookup(vs, key)
        ELSE IF Len(parts) >= 2 THEN Trim(parts[2])
        ELSE <<>>

RECURSIVE RenderFrom(_, _, _)
RenderFrom(tmpl, vs, i) ==
    IF i > Len(tmpl) THEN <<>>
    ELSE IF VarMatchAt(tmpl, i)
         THEN LET n == KeyRun(tmpl, i + 2)
              IN  RenderKey(SubSeq(tmpl, i + 2, i + 1 + n), vs)
                      \o RenderFrom(tmpl, vs, i + 4 + n)
         ELSE <<tmpl[i]>> \o RenderFrom(tmpl, vs, i + 1)

renderTemplate(tmpl, vs) == RenderFrom(tmpl, vs, 1)

CursorMarker == << "{", "{", "c", "u", "r", "s", "o", "r", "}", "}" >>

\* content.replace("{{cursor}}", "")
RemoveCursor(content) == ReplaceFirst(content, CursorMarker, <<>>)

\* let content = renderTemplate(t, vars); content = content.replace("{{cursor}}", "")
RenderContent(tmpl, vs) == RemoveCursor(renderTemplate(tmpl, vs))

(***************************************************************************)
(* The vault: fs calls of "fs" and "path" on vault-relative paths          *)
(***************************************************************************)
\* path.join(config.vaultPath, text): split at "/", empty segments dropped
PathOf(text) == SelectSeq(Split(text, "/"), LAMBDA seg : seg # <<>>)

\* path.dirname
Dirname(p) == SubSeq(p, 1, Len(p) - 1)

IsUnder(p, d) == Len(p) > Len(d) /\ SubSeq(p, 1, Len(d)) = d

existsSync(ds, fs, p) == p \in ds \/ p \in DOMAIN fs

\* fs.readdirSync(d): the names of the entries of d
readdirSync(ds, fs, d) ==
    { p[Len(p)] : p \in { q \in ds \cup DOMAIN fs : Len(q) = Len(d) + 1 /\ IsUnder(q, d) } }

\* fs.mkdirSync(p, {recursive: true}): p and all its ancestors
mkdirSync(ds, p) == ds \cup { SubSeq(p, 1, k) : k \in 0..Len(p) }

\* ensureDir(path)
ensureDir(ds, fs, p) == IF existsSync(ds, fs, p) THEN ds ELSE mkdirSync(ds, p)

\* a variant with the flag "wx": a file that is there is left as it is
writeFileSyncExclusive(fs, p, c) ==
    IF p \in DOMAIN fs THEN fs
    ELSE [q \in DOMAIN fs \cup {p} |-> IF q = p THEN c ELSE fs[q]]

\* fs.writeFileSync(p, content): creates or overwrites
writeFileSync(fs, p, c) == [q \in DOMAIN fs \cup {p} |-> IF q = p THEN c ELSE fs[q]]

\* fs.unlinkSync(p)
unlinkSync(fs, p) == [q \in DOMAIN fs \ {p} |-> fs[q]]

Rebase(p, from, to) == to \o SubSeq(p, Len(from) + 1, Len(p))

(***************************************************************************)
(* Configuration (templates.yml)                                           *)
(***************************************************************************)
Date == "2025-12-07"

StatusFolders == << <<"backlog">>, <<"active">>, <<"review">>, <<"done">> >>

Var(k) == << "{", "{", k, "}", "}" >>

\* README "Configuration": the index.md of the project template
IndexTemplate ==
    << "title: " >> \o Var("title") \o << "\n", "status: " >>
        \o << "{", "{", "status", "|", "Planned", "}", "}" >>
        \o << "\n", "prefix: " >> \o Var("prefix")
        \o << "\n", "## Outcome", "\n", "- " >> \o CursorMarker

QuicklinksTemplate == << "# " >> \o Var("title") \o << "\n" >> \o CursorMarker

\* generateAgentsMd: `new project` and `new area` create the folder "with work
\* folders"
WorkFolderFiles ==
    [ k \in 1..4 |-> [ name |-> << "work", "/" >> \o StatusFolders[k] \o << "/", ".gitkeep" >>,
                       template |-> <<>> ] ]

ProjectFiles ==
    << [name |-> <<"index.md">>, template |-> IndexTemplate],
       [name |-> <<"quicklinks.md">>, template |-> QuicklinksTemplate] >>
        \o WorkFolderFiles

\* AGENTS.md "Current Templates": an area has index.md and quicklinks.md too
AreaFiles == ProjectFiles

NoTemplate == [filePath |-> <<>>, template |-> <<>>, folderPattern |-> <<>>, files |-> <<>>]

MultiFile(pattern, fileDefs) ==
    [NoTemplate EXCEPT !.folderPattern = pattern, !.files = fileDefs]

SingleFile(path, body) ==
    [NoTemplate EXCEPT !.filePath = path, !.template = body]

\* the front matter mark rewrites: a "status: <Capitalized>" field (work items
\* only) and a "- status/<old>" line under "tags:"
WorkTemplate ==
    << "---", "\n", "title: " >> \o Var("title")
        \o << "\n", "status: ", "Backlog", "\n", "tags:", "\n",
              " ", "- status/", "backlog", "\n", "---", "\n" >>
        \o CursorMarker

PostTemplate ==
    << "---", "\n", "area: " >> \o Var("area")
        \o << "\n", "tags:", "\n", " ", "- status/", "backlog", "\n", "---", "\n" >>
        \o CursorMarker

ResourceTemplate ==
    << "---", "\n", "created_date: " >> \o Var("date")
        \o << "\n", "tags:", "\n", " ", "- note", "\n", "---", "\n", "# " >>
        \o Var("title")

PrefixSlug == Var("prefix") \o <<"_">> \o Var("slug")

Templates(projectPattern, areaPattern) ==
    [ project  |-> MultiFile(projectPattern, ProjectFiles),
      area     |-> MultiFile(areaPattern, AreaFiles),
      work     |-> SingleFile(Var("folder") \o << "/", "work", "/", "backlog", "/" >>
                                  \o PrefixSlug \o <<".md">>, WorkTemplate),
      post     |-> SingleFile(<< "01_areas", "/" >> \o Var("area") \o << "/", "backlog", "/" >>
                                  \o PrefixSlug \o <<".md">>, PostTemplate),
      resource |-> SingleFile(<< "02_resources", "/" >> \o Var("slug") \o <<".md">>,
                              ResourceTemplate),
      scratch  |-> SingleFile(Var("folder") \o << "/", "notes", "/" >> \o Var("date")
                                  \o <<"-">> \o Var("slug") \o <<".md">>, QuicklinksTemplate),
      scratch_root |->
                   SingleFile(Var("folder") \o <<"/">> \o Var("date")
                                  \o <<"-">> \o Var("slug") \o <<".md">>, QuicklinksTemplate),
      recipe   |-> SingleFile(<< "02_resources", "/" >> \o PrefixSlug \o <<".md">>,
                              ResourceTemplate),
      resource_folder |->
                   MultiFile(<< "02_resources", "/" >> \o PrefixSlug,
                             << [name |-> <<"index.md">>, template |-> ResourceTemplate] >>) ]

Roots ==
    [ projectsRoot         |-> <<"00_projects">>,
      areasRoot            |-> <<"01_areas">>,
      resourcesRoot        |-> <<"02_resources">>,
      inboxRoot            |-> <<"05_inbox">>,
      archiveProjectsRoot  |-> << "03_archive", "/", "projects" >>,
      archiveAreasRoot     |-> << "03_archive", "/", "areas" >>,
      archiveResourcesRoot |-> << "03_archive", "/", "resources" >> ]

\* README "Configuration": folders are named <prefix>_<slug>
PrefixedConfig ==
    [ roots |-> Roots,
      templates |-> Templates(<< "00_projects", "/" >> \o PrefixSlug,
                              << "01_areas", "/" >> \o PrefixSlug) ]

\* AGENTS.md "Current Templates": folders are named <slug>
SlugOnlyConfig ==
    [ roots |-> Roots,
      templates |-> Templates(<< "00_projects", "/" >> \o Var("slug"),
                              << "01_areas", "/" >> \o Var("slug")) ]

HasTemplate(cfg, name) == name \in DOMAIN cfg.templates

(***************************************************************************)
(* Prefix generation                                                       *)
(***************************************************************************)
\* const chars = "abcdefghijklmnopqrstuvwxyz"
chars == Alphabet

\* chars[Math.floor(Math.random() * chars.length)], twice: the two random
\* indices are the digits of i in base chars.length
TwoChars(i) ==
    << chars[(i \div Len(chars)) + 1], chars[(i % Len(chars)) + 1] >>

\* the same, three times
ThreeChars(i) ==
    << chars[(i \div (Len(chars) * Len(chars))) + 1],
       chars[((i \div Len(chars)) % Len(chars)) + 1],
       chars[(i % Len(chars)) + 1] >>

\* how many of the 676 two-letter samples prefix generation draws from in the
\* model: the first ones in alphabetical order
MaxPrefixes == 3

TwoLetters == { TwoChars(i) : i \in 0..(MaxPrefixes - 1) }

\* how many of the samples the generation of an item code draws from in the
\* model: the first ones in alphabetical order
MaxCodes == 2

\* work items: two letters
WorkCodes == { TwoChars(i) : i \in 0..(MaxCodes - 1) }

\* posts: three letters
PostCodes == { ThreeChars(i) : i \in 0..(MaxCodes - 1) }

\* if (existsSync(d)) readdirSync(d), else nothing
Listing(ds, fs, d) == IF existsSync(ds, fs, d) THEN readdirSync(ds, fs, d) ELSE {}

ProjectsDir(cfg) == PathOf(cfg.roots.projectsRoot)
AreasDir(cfg) == PathOf(cfg.roots.areasRoot)
ResourcesDir(cfg) == PathOf(cfg.roots.resourcesRoot)

\* a variant that scans the projects root only
ExistingPrefixesProjectsOnly(cfg, ds, fs) ==
    { Substring(d, 0, 2) :
        d \in { e \in Listing(ds, fs, ProjectsDir(cfg)) : Includes(e, "_") } }

\* existingPrefixes: dir.substring(0, 2) of every entry that includes "_"
ExistingPrefixes(cfg, ds, fs) ==
    { Substring(d, 0, 2) :
        d \in { e \in Listing(ds, fs, ProjectsDir(cfg)) \cup Listing(ds, fs, AreasDir(cfg)) :
                  Includes(e, "_") } }

\* the values the do-while loop can return; none when every sample is taken
\* (the loop then never ends)
generateUniquePrefix(cfg, ds, fs) == TwoLetters \ ExistingPrefixes(cfg, ds, fs)

\* a variant that looks at the projects root only
ValidateProjectsOnly(prefix, cfg, ds, fs) ==
    ~ \E d \in Listing(ds, fs, ProjectsDir(cfg)) : StartsWith(d, prefix \o <<"_">>)

validatePrefixUnique(prefix, cfg, ds, fs) ==
    /\ ~ \E d \in Listing(ds, fs, ProjectsDir(cfg)) : StartsWith(d, prefix \o <<"_">>)
    /\ ~ \E d \in Listing(ds, fs, AreasDir(cfg)) : StartsWith(d, prefix \o <<"_">>)

\* file.match(/^([a-z]{n})_/)
CodeOf(file, n) ==
    IF /\ Len(file) > n
       /\ \A i \in 1..n : file[i] \in LowerLetters
       /\ file[n + 1] = "_"
    THEN { SubSeq(file, 1, n) } ELSE {}

\* a variant that reads the backlog folder only
ExistingCodesBacklogOnly(ds, fs, base, n) ==
    IF existsSync(ds, fs, base)
    THEN UNION { CodeOf(f, n) : f \in Listing(ds, fs, base \o <<StatusFolders[1]>>) }
    ELSE {}

\* the codes found in the four status folders under `base`
ExistingCodes(ds, fs, base, n) ==
    IF existsSync(ds, fs, base)
    THEN UNION { CodeOf(f, n) :
                   f \in UNION { Listing(ds, fs, base \o <<StatusFolders[k]>>) : k \in 1..4 } }
    ELSE {}

(***************************************************************************)
(* createEntity                                                            *)
(***************************************************************************)
\* the options bag of `new`; <<>> and FALSE stand for an option not given
NoOptions ==
    [ prefix |-> <<>>, area |-> <<>>, folder |-> <<>>, dependencies |-> <<>>,
      type |-> <<>>, content |-> <<>>, solo |-> FALSE, atRoot |-> FALSE ]

\* a || b on strings
OrElse(a, b) == IF a # <<>> THEN a ELSE b

DefaultArea == << "p", "b", "_", "personal_blog" >>

\* process.exit(1) before any write
Fail(ds, fs) ==
    [ exit |-> 1, dirs |-> ds, files |-> fs,
      gen |-> <<>>, code |-> <<>>, path |-> <<>>, src |-> <<>> ]

Ok(ds, fs, gen, code, path, src) ==
    [ exit |-> 0, dirs |-> ds, files |-> fs,
      gen |-> gen, code |-> code, path |-> path, src |-> src ]

\* a variant that looks at the type alone
ActualTypeOfTypeOnly(type, options) == type

\* let actualType = ...: the three overrides
ActualType(type, options) ==
    IF type = "resource" /\ options.prefix # <<>> THEN "resource_folder"
    ELSE IF type = "scratch" /\ options.atRoot THEN "scratch_root"
    ELSE IF type = "episode" /\ options.solo THEN "solo_episode"
    ELSE type

\* const vars: Record<string, string> = { ... }
RenderVars(type, title, slug, options, prefix, workItemPrefix, postPrefix, resolvedArea) ==
    ( <<"title">> :> title ) @@ ( <<"slug">> :> slug ) @@ ( <<"date">> :> <<Date>> )
    @@ ( <<"status">> :> IF type = "project" THEN <<"Planned">> ELSE <<"Active">> )
    @@ ( <<"area">> :> IF type = "post" THEN resolvedArea
                       ELSE OrElse(options.area, DefaultArea) )
    @@ ( <<"dependencies">> :> OrElse(options.dependencies, <<"none">>) )
    @@ ( <<"type">> :> OrElse(options.type, <<"task">>) )
    @@ ( <<"content">> :> options.content )
    @@ ( <<"prefix">> :> IF type = "work" THEN workItemPrefix
                         ELSE IF type = "post" THEN postPrefix ELSE prefix )
    @@ ( <<"folder">> :> options.folder )

NewFile(path, text) == [origin |-> path, text |-> text]

\* a variant without the existsSync(filePath) exit
CreateSingleNoCheck(ds, fs, template, vs, gen, code) ==
    LET filePath == PathOf(renderTemplate(template.filePath, vs))
    IN  Ok(ensureDir(ds, fs, Dirname(filePath)),
           writeFileSync(fs, filePath,
                         NewFile(filePath, RenderContent(template.template, vs))),
           gen, code, filePath, <<>>)

\* if (template.filePath) { ... }
CreateSingle(ds, fs, template, vs, gen, code) ==
    LET filePath == PathOf(renderTemplate(template.filePath, vs))
    IN  IF existsSync(ds, fs, filePath) THEN Fail(ds, fs)
        ELSE Ok(ensureDir(ds, fs, Dirname(filePath)),
                writeFileSync(fs, filePath,
                              NewFile(filePath, RenderContent(template.template, vs))),
                gen, code, filePath, <<>>)

\* for (const fileDef of template.files!) { ... }
RECURSIVE WriteFiles(_, _, _, _, _)
WriteFiles(ds, fs, folderPath, fileDefs, vs) ==
    IF fileDefs = <<>> THEN [dirs |-> ds, files |-> fs]
    ELSE LET filePath == folderPath \o PathOf(fileDefs[1].name)
         IN  WriteFiles(ensureDir(ds, fs, Dirname(filePath)),
                        writeFileSync(fs, filePath,
                                      NewFile(filePath,
                                              RenderContent(fileDefs[1].template, vs))),
                        folderPath, Tail(fileDefs), vs)

\* a variant whose loop stops before the last declared file
CreateMultiSkipLast(ds, fs, template, vs, gen, code) ==
    LET folderPath == PathOf(renderTemplate(template.folderPattern, vs))
        w == WriteFiles(ensureDir(ds, fs, folderPath), fs, folderPath,
                        SubSeq(template.files, 1, Len(template.files) - 1), vs)
    IN  IF existsSync(ds, fs, folderPath) THEN Fail(ds, fs)
        ELSE Ok(w.dirs, w.files, gen, code, folderPath, <<>>)

\* the multi-file branch
CreateMulti(ds, fs, template, vs, gen, code) ==
    LET folderPath == PathOf(renderTemplate(template.folderPattern, vs))
        w == WriteFiles(ensureDir(ds, fs, folderPath), fs, folderPath, template.files, vs)
    IN  IF existsSync(ds, fs, folderPath) THEN Fail(ds, fs)
        ELSE Ok(w.dirs, w.files, gen, code, folderPath, <<>>)

\* areaDirs.find(d => d.startsWith(areaPrefix + "_")): the candidates (find takes
\* the first in directory order); none is the "No area found" exit
PostAreas(cfg, ds, fs, options) ==
    LET areaPrefix == OrElse(options.area, << "p", "b" >>)
    IN  IF existsSync(ds, fs, AreasDir(cfg))
        THEN { d \in readdirSync(ds, fs, AreasDir(cfg)) : StartsWith(d, areaPrefix \o <<"_">>) }
        ELSE { OrElse(options.area, DefaultArea) }

\* the set of outcomes of createEntity(type, title, options); empty when a prefix
\* loop cannot end
createEntity(cfg, ds, fs, type, title, options) ==
    LET actualType == ActualType(type, options)
    IN  IF ~ HasTemplate(cfg, actualType) THEN { Fail(ds, fs) }
        ELSE
        LET template  == cfg.templates[actualType]
            slug      == slugify(title)
            isPA      == type \in {"project", "area"}
            generated == isPA /\ options.prefix = <<>>
            prefixes  == IF generated THEN generateUniquePrefix(cfg, ds, fs)
                         ELSE { options.prefix }
            workCodes == IF type = "work"
                         THEN WorkCodes \ ExistingCodes(ds, fs,
                                  PathOf(options.folder) \o << <<"work">> >>, 2)
                         ELSE { <<>> }
            areas     == IF type = "post" THEN PostAreas(cfg, ds, fs, options)
                         ELSE { OrElse(options.area, DefaultArea) }
            FreePostCodes(resolvedArea) ==
                         IF type = "post"
                         THEN PostCodes \ ExistingCodes(ds, fs,
                                  AreasDir(cfg) \o <<resolvedArea>>, 3)
                         ELSE { <<>> }
            Build(prefix, workItemPrefix, postPrefix, resolvedArea) ==
                LET vs   == RenderVars(type, title, slug, options, prefix,
                                       workItemPrefix, postPrefix, resolvedArea)
                    gen  == IF generated THEN prefix ELSE <<>>
                    code == workItemPrefix \o postPrefix
                IN  IF template.filePath # <<>>
                    THEN CreateSingle(ds, fs, template, vs, gen, code)
                    ELSE CreateMulti(ds, fs, template, vs, gen, code)
        IN  UNION {
              IF isPA /\ options.prefix # <<>>
                      /\ ~ validatePrefixUnique(prefix, cfg, ds, fs)
              THEN { Fail(ds, fs) }
              ELSE IF workCodes = {} THEN {}
              ELSE IF areas = {} THEN { Fail(ds, fs) }
              ELSE UNION { { Build(prefix, w, p, a) : w \in workCodes, p \in FreePostCodes(a) }
                           : a \in areas }
              : prefix \in prefixes }

(***************************************************************************)
(* The `new` command                                                       *)
(***************************************************************************)
Untitled == << "U", "n", "t", "i", "t", "l", "e", "d" >>

\* dirs.find(d => d.startsWith(prefix + "_")) in one root: the candidates
FindIn(ds, fs, dir, prefix) ==
    { d \in Listing(ds, fs, dir) : StartsWith(d, prefix \o <<"_">>) }

\* opts.folder: the project with this prefix, else the area with this prefix
ParentFolders(cfg, ds, fs, prefix) ==
    LET ps == FindIn(ds, fs, ProjectsDir(cfg), prefix)
        as == FindIn(ds, fs, AreasDir(cfg), prefix)
    IN  IF ps # {} THEN { cfg.roots.projectsRoot \o <<"/">> \o d : d \in ps }
        ELSE { cfg.roots.areasRoot \o <<"/">> \o d : d \in as }

\* `new resource --prefix` when a resource folder with the prefix exists
MergeResource(cfg, ds, fs, resourceDir, actualTitle, opts) ==
    LET actualSlug == slugify(actualTitle)
        filePath   == ResourcesDir(cfg) \o << resourceDir, actualSlug \o <<".md">> >>
        vs == RenderVars("resource", actualTitle, actualSlug, opts, opts.prefix,
                         <<>>, <<>>, <<>>)
    IN  IF existsSync(ds, fs, filePath) \/ Dirname(filePath) \in DOMAIN fs
        THEN Fail(ds, fs)
        ELSE Ok(ds,
                writeFileSync(fs, filePath,
                    NewFile(filePath, RenderContent(cfg.templates.resource.template, vs))),
                <<>>, <<>>, filePath, <<>>)

NewCommand(cfg, ds, fs, type, title, opts) ==
    LET actualTitle == OrElse(title, Untitled)
        InParent ==
            LET folders == ParentFolders(cfg, ds, fs, opts.prefix)
            IN  IF folders = {} THEN { Fail(ds, fs) }
                ELSE UNION { createEntity(cfg, ds, fs, type, actualTitle,
                                          [opts EXCEPT !.folder = f]) : f \in folders }
    IN  IF type = "work"
        THEN IF opts.prefix = <<>> \/ Len(opts.prefix) # 2 THEN { Fail(ds, fs) }
             ELSE InParent
        ELSE IF type = "scratch" /\ opts.prefix = <<>> /\ ~ opts.atRoot
        THEN { Fail(ds, fs) }
        ELSE IF type = "scratch" /\ opts.prefix # <<>>
        THEN IF Len(opts.prefix) # 2 THEN { Fail(ds, fs) } ELSE InParent
        ELSE IF type = "resource" /\ opts.prefix # <<>>
        THEN IF Len(opts.prefix) # 2 THEN { Fail(ds, fs) }
             ELSE LET found == FindIn(ds, fs, ResourcesDir(cfg), opts.prefix)
                  IN  IF found # {}
                      \* .templates.resource.template of a configuration without
                      \* `resource`: a TypeError nobody catches
                      THEN IF ~ HasTemplate(cfg, "resource") THEN { Fail(ds, fs) }
                           ELSE { MergeResource(cfg, ds, fs, d, actualTitle, opts)
                                    : d \in found }
                      ELSE createEntity(cfg, ds, fs, "resource_folder", actualTitle, opts)
        ELSE IF type = "recipe"
        THEN LET o == [opts EXCEPT !.prefix = OrElse(opts.prefix, << "r", "e" >>)]
             IN  IF Len(o.prefix) # 2 THEN { Fail(ds, fs) }
                 ELSE createEntity(cfg, ds, fs, type, actualTitle, o)
        ELSE createEntity(cfg, ds, fs, type, actualTitle, opts)

(***************************************************************************)
(* archiveEntity and the `archive` command                                 *)
(***************************************************************************)
RootOf(cfg, type) ==
    CASE type = "project"  -> cfg.roots.projectsRoot
      [] type = "area"     -> cfg.roots.areasRoot
      [] type = "resource" -> cfg.roots.resourcesRoot

ArchiveOf(cfg, type) ==
    CASE type = "project"  -> cfg.roots.archiveProjectsRoot
      [] type = "area"     -> cfg.roots.archiveAreasRoot
      [] type = "resource" -> cfg.roots.archiveResourcesRoot

\* a variant that copies: the source stays where it was
renameSyncKeepSource(ds, fs, src, dst) ==
    LET Moved(p) == p = src \/ IsUnder(p, src)
        moved    == { p \in DOMAIN fs : Moved(p) }
    IN  [ dirs  |-> ds \cup { Rebase(p, src, dst) : p \in { d \in ds : Moved(d) } },
          files |-> [ q \in DOMAIN fs \cup { Rebase(p, src, dst) : p \in moved } |->
                        IF \E p \in moved : Rebase(p, src, dst) = q
                        THEN fs[CHOOSE p \in moved : Rebase(p, src, dst) = q]
                        ELSE fs[q] ] ]

\* fs.renameSync(src, dst) when it succeeds: a file replaces a file, a folder
\* moves with everything under it
renameSync(ds, fs, src, dst) ==
    LET Moved(p) == p = src \/ IsUnder(p, src)
        To(p)    == IF Moved(p) THEN Rebase(p, src, dst) ELSE p
        keep     == { p \in DOMAIN fs : ~ Moved(p) /\ p # dst }
        moved    == { p \in DOMAIN fs : Moved(p) }
    IN  [ dirs  |-> { To(p) : p \in ds },
          files |-> [ q \in keep \cup { To(p) : p \in moved } |->
                        IF q \in keep THEN fs[q]
                        ELSE fs[CHOOSE p \in moved : To(p) = q] ] ]

\* renameSync throws (ENOTEMPTY, EISDIR, ENOTDIR): the destination is a folder
\* with entries, or a folder and a file meet
RenameThrows(ds, fs, src, dst) ==
    \/ dst \in ds /\ readdirSync(ds, fs, dst) # {}
    \/ dst \in ds /\ src \in DOMAIN fs
    \/ dst \in DOMAIN fs /\ src \in ds

\* a variant without the "Folder not found" exit
archiveEntityNoCheck(cfg, ds, fs, type, folderName) ==
    LET sourcePath == PathOf(RootOf(cfg, type)) \o PathOf(folderName)
        targetPath == PathOf(ArchiveOf(cfg, type)) \o PathOf(folderName)
        ds2 == ensureDir(ds, fs, Dirname(targetPath))
        r   == renameSync(ds2, fs, sourcePath, targetPath)
    IN  IF RenameThrows(ds2, fs, sourcePath, targetPath)
        THEN [Fail(ds2, fs) EXCEPT !.src = sourcePath, !.path = targetPath]
        ELSE Ok(r.dirs, r.files, <<>>, <<>>, targetPath, sourcePath)

\* an uncaught exception of renameSync ends the process with exit code 1
archiveEntity(cfg, ds, fs, type, folderName) ==
    LET sourcePath == PathOf(RootOf(cfg, type)) \o PathOf(folderName)
        targetPath == PathOf(ArchiveOf(cfg, type)) \o PathOf(folderName)
        ds2 == ensureDir(ds, fs, Dirname(targetPath))
        r   == renameSync(ds2, fs, sourcePath, targetPath)
    IN  IF ~ existsSync(ds, fs, sourcePath) THEN Fail(ds, fs)
        ELSE IF RenameThrows(ds2, fs, sourcePath, targetPath)
        THEN [Fail(ds2, fs) EXCEPT !.src = sourcePath, !.path = targetPath]
        ELSE Ok(r.dirs, r.files, <<>>, <<>>, targetPath, sourcePath)

ArchiveCommand(cfg, ds, fs, type, name) ==
    IF type \notin {"project", "area", "resource"} THEN Fail(ds, fs)
    ELSE archiveEntity(cfg, ds, fs, type, name)

(***************************************************************************)
(* markWork, markPost and the `mark` command                               *)
(***************************************************************************)
validStatuses == { StatusFolders[k] : k \in 1..4 }

\* statusMap
Capitalized(statusLower) ==
    CASE statusLower = <<"backlog">> -> <<"Backlog">>
      [] statusLower = <<"active">>  -> <<"Active">>
      [] statusLower = <<"review">>  -> <<"Review">>
      [] statusLower = <<"done">>    -> <<"Done">>
      [] OTHER                       -> <<"undefined">>

MinOf(S) == CHOOSE i \in S : \A j \in S : i <= j

\* the length of the longest run of tokens other than "\n" starting at s[i]
RECURSIVE LineRun(_, _)
LineRun(s, i) ==
    IF i > Len(s) \/ s[i] = "\n" THEN 0 ELSE 1 + LineRun(s, i + 1)

\* the length of the longest run of whitespace starting at s[i]
RECURSIVE SpaceRun(_, _)
SpaceRun(s, i) ==
    IF i > Len(s) \/ s[i] \notin Whitespace THEN 0 ELSE 1 + SpaceRun(s, i + 1)

ReplaceRange(s, a, b, rep) == SubSeq(s, 1, a - 1) \o rep \o SubSeq(s, b + 1, Len(s))

\* /- status\/[^\n]+/ matches at position j
TagAt(s, j) == j <= Len(s) /\ s[j] = "- status/" /\ LineRun(s, j + 1) >= 1

\* content.replace(/^status: .+$/m, `status: ${newStatus}`)
SetStatusField(s, newStatus) ==
    LET hits == { i \in 1..Len(s) : /\ i = 1 \/ s[i - 1] = "\n"
                                    /\ s[i] = "status: "
                                    /\ LineRun(s, i + 1) >= 1 }
    IN  IF hits = {} THEN s
        ELSE LET i == MinOf(hits)
             IN  ReplaceRange(s, i, i + LineRun(s, i + 1), <<"status: ">> \o newStatus)

\* content.replace(/\n\s*- status\/[^\n]+/, "")
RemoveStatusTag(s) ==
    LET hits == { i \in 1..Len(s) : s[i] = "\n" /\ TagAt(s, i + 1 + SpaceRun(s, i + 1)) }
    IN  IF hits = {} THEN s
        ELSE LET i == MinOf(hits)
                 j == i + 1 + SpaceRun(s, i + 1)
             IN  ReplaceRange(s, i, j + LineRun(s, j + 1), <<>>)

\* content.replace(/- status\/[^\n]+/, `- status/${statusLower}`)
SetStatusTag(s, statusLower) ==
    LET hits == { j \in 1..Len(s) : TagAt(s, j) }
    IN  IF hits = {} THEN s
        ELSE LET j == MinOf(hits)
             IN  ReplaceRange(s, j, j + LineRun(s, j + 1), <<"- status/">> \o statusLower)

\* content.replace(/tags:\n([\s\S]*?)- status\/[^\n]+/, `tags:\n$1- status/${statusLower}`)
SetStatusTagUnderTags(s, statusLower) ==
    LET After(i) == { j \in (i + 2)..Len(s) : TagAt(s, j) }
        hits == { i \in 1..(Len(s) - 1) :
                    s[i] = "tags:" /\ s[i + 1] = "\n" /\ After(i) # {} }
    IN  IF hits = {} THEN s
        ELSE LET j == MinOf(After(MinOf(hits)))
             IN  ReplaceRange(s, j, j + LineRun(s, j + 1), <<"- status/">> \o statusLower)

\* markPost: "Update status tag in frontmatter"
PostContent(content, statusLower) ==
    IF statusLower = <<"done">> THEN RemoveStatusTag(content)
    ELSE SetStatusTag(content, statusLower)

\* markWork: "Update status in frontmatter"
WorkContent(content, statusLower) ==
    LET c == SetStatusField(content, Capitalized(statusLower))
    IN  IF statusLower = <<"done">> THEN RemoveStatusTag(c)
        ELSE SetStatusTagUnderTags(c, statusLower)

\* a variant that matches the code without the underscore after it
SourcesByCode(ds, fs, base, itemPrefix) ==
    LET found == [ k \in 1..4 |->
                     { f \in Listing(ds, fs, base \o <<StatusFolders[k]>>) :
                         StartsWith(f, itemPrefix) } ]
        ks == { k \in 1..4 : found[k] # {} }
    IN  IF ks = {} THEN {}
        ELSE { base \o << StatusFolders[MinOf(ks)], f >> : f \in found[MinOf(ks)] }

\* for (const stat of [...]) { files.find(f => f.startsWith(item + "_")) ... break }
\* under `base`: the candidates in the first status folder that has one
Sources(ds, fs, base, itemPrefix) ==
    LET found == [ k \in 1..4 |->
                     { f \in Listing(ds, fs, base \o <<StatusFolders[k]>>) :
                         StartsWith(f, itemPrefix \o <<"_">>) } ]
        ks == { k \in 1..4 : found[k] # {} }
    IN  IF ks = {} THEN {}
        ELSE { base \o << StatusFolders[MinOf(ks)], f >> : f \in found[MinOf(ks)] }

\* a variant that keeps the name when done
TargetFileNameKeep(fileName, itemPrefix, statusLower) == fileName

\* "remove prefix from filename when done"
TargetFileName(fileName, itemPrefix, statusLower) ==
    IF statusLower = <<"done">> THEN ReplaceFirst(fileName, itemPrefix \o <<"_">>, <<>>)
    ELSE fileName

\* a variant without unlinkSync(sourcePath)
MoveCopyOnly(ds, fs, sourcePath, targetPath, content) ==
    Ok(ensureDir(ds, fs, Dirname(targetPath)),
       writeFileSync(fs, targetPath, [fs[sourcePath] EXCEPT !.text = content]),
       <<>>, <<>>, targetPath, sourcePath)

\* ensureDir(dirname(targetPath)); writeFileSync(targetPath, content);
\* unlinkSync(sourcePath)
Move(ds, fs, sourcePath, targetPath, content) ==
    Ok(ensureDir(ds, fs, Dirname(targetPath)),
       unlinkSync(writeFileSync(fs, targetPath, [fs[sourcePath] EXCEPT !.text = content]),
                  sourcePath),
       <<>>, <<>>, targetPath, sourcePath)

\* the part of markWork / markPost after the search: statusBase is the folder
\* that holds the four status folders
Relocate(ds, fs, statusBase, sourcePath, itemPrefix, statusLower, type) ==
    LET fileName   == sourcePath[Len(sourcePath)]
        targetPath == statusBase \o << statusLower,
                                       TargetFileName(fileName, itemPrefix, statusLower) >>
        content    == fs[sourcePath].text
    IN  Move(ds, fs, sourcePath, targetPath,
             IF type = "work" THEN WorkContent(content, statusLower)
             ELSE PostContent(content, statusLower))

\* a variant that accepts every status
StatusAny(status) == TRUE

\* validStatuses.includes(status.toLowerCase())
StatusIsValid(status) == ToLowerCase(status) \in validStatuses

markPost(cfg, ds, fs, areaPrefix, postPrefix, status) ==
    LET statusLower == ToLowerCase(status)
        areaDirs    == FindIn(ds, fs, AreasDir(cfg), areaPrefix)
        InArea(areaDir) ==
            LET areaPath == AreasDir(cfg) \o <<areaDir>>
                found    == Sources(ds, fs, areaPath, postPrefix)
            IN  IF found = {} THEN { Fail(ds, fs) }
                ELSE { Relocate(ds, fs, areaPath, sp, postPrefix, statusLower, "post")
                         : sp \in found }
    IN  IF ~ StatusIsValid(status) THEN { Fail(ds, fs) }
        ELSE IF areaDirs = {} THEN { Fail(ds, fs) }
        ELSE UNION { InArea(d) : d \in areaDirs }

markWork(cfg, ds, fs, folderPrefix, itemPrefix, status) ==
    LET statusLower == ToLowerCase(status)
        projectDirs == FindIn(ds, fs, ProjectsDir(cfg), folderPrefix)
        areaDirs    == FindIn(ds, fs, AreasDir(cfg), folderPrefix)
        In(root, dir) ==
            LET workPath == root \o << dir, <<"work">> >>
            IN  { Relocate(ds, fs, workPath, sp, itemPrefix, statusLower, "work")
                    : sp \in Sources(ds, fs, workPath, itemPrefix) }
        \* "Search in areas if not found in projects"
        InAreas ==
            IF areaDirs = {} THEN { Fail(ds, fs) }
            ELSE UNION { LET moved == In(AreasDir(cfg), d)
                         IN  IF moved = {} THEN { Fail(ds, fs) } ELSE moved
                         : d \in areaDirs }
    IN  IF ~ StatusIsValid(status) THEN { Fail(ds, fs) }
        ELSE IF projectDirs = {} THEN InAreas
        ELSE UNION { LET moved == In(ProjectsDir(cfg), d)
                     IN  IF moved = {} THEN InAreas ELSE moved
                     : d \in projectDirs }

MarkCommand(cfg, ds, fs, type, prefix, item, status) ==
    IF type \notin {"work", "post"} THEN { Fail(ds, fs) }
    ELSE IF Len(prefix) # 2 THEN { Fail(ds, fs) }
    ELSE IF type = "work"
         THEN IF Len(item) # 2 THEN { Fail(ds, fs) }
              ELSE markWork(cfg, ds, fs, prefix, item, status)
         ELSE IF Len(item) # 3 THEN { Fail(ds, fs) }
              ELSE markPost(cfg, ds, fs, prefix, item, status)

(***************************************************************************)
(* The vault as a state machine: one action per command invocation         *)
(***************************************************************************)
\* how many entries the projects, areas and resources roots and their archives
\* hold together, at most
MaxEntries == 2
\* how many work items and posts the vault holds, at most
MaxItems == 2

Titles == { << "T", "!" >> }

CustomPrefixes == { << "a", "a" >>, << "a" >> }

EmptyFiles == [p \in {} |-> NewFile(<<>>, <<>>)]

RootDirs(cfg) ==
    { ProjectsDir(cfg), AreasDir(cfg), ResourcesDir(cfg),
      PathOf(cfg.roots.archiveProjectsRoot), PathOf(cfg.roots.archiveAreasRoot),
      PathOf(cfg.roots.archiveResourcesRoot) }

\* the entries (paths) directly under the roots and the archive roots
EntriesOf(cfg, ds, fs) == { p \in ds \cup DOMAIN fs : Dirname(p) \in RootDirs(cfg) }
Entries == EntriesOf(config, dirs, files)

\* the work items and posts: the files in status folders
IsStatusFolder(d) == d # <<>> /\ d[Len(d)] \in validStatuses
IsNote(p) == LET f == p[Len(p)] IN f # <<>> /\ f[Len(f)] = ".md"
ItemsOf(fs) == { p \in DOMAIN fs : IsStatusFolder(Dirname(p)) /\ IsNote(p) }
Items == ItemsOf(files)

\* the vault after an invocation with outcome o
Apply(o) ==
    /\ dirs' = o.dirs
    /\ files' = o.files
    /\ UNCHANGED <<config, procs>>

\* obsd new project|area [title] [--prefix xx]
NewContainer ==
    \E type \in {"project", "area"}, title \in Titles,
       prefix \in {<<>>} \cup CustomPrefixes :
      \E o \in NewCommand(config, dirs, files, type, title,
                          [NoOptions EXCEPT !.prefix = prefix]) :
        /\ o.exit = 1 \/ Cardinality(Entries) < MaxEntries
        /\ Apply(o)

\* the titles of resources: two of them have the same slug
ResourceTitles == Titles \cup { << "T" >> }

\* obsd new resource [title]
NewResource ==
    \E title \in ResourceTitles :
      \E o \in NewCommand(config, dirs, files, "resource", title, NoOptions) :
        /\ o.exit = 1 \/ Cardinality(Entries) < MaxEntries
        /\ Apply(o)

ArchiveTypes == {"project", "area", "resource", "note"}
ArchiveNames == { p[Len(p)] : p \in Entries } \cup { <<"missing">> }

\* obsd archive <type> <name>
Archive ==
    \E type \in ArchiveTypes, name \in ArchiveNames :
      Apply(ArchiveCommand(config, dirs, files, type, name))

\* the parents of the items: a project and an area, made with --prefix
ParentInputs ==
    { [type |-> "project", prefix |-> << "a", "a" >>],
      [type |-> "area",    prefix |-> << "a", "b" >>] }

\* obsd new project|area [title] --prefix xx
NewParent ==
    \E in \in ParentInputs, title \in Titles :
      \E o \in NewCommand(config, dirs, files, in.type, title,
                          [NoOptions EXCEPT !.prefix = in.prefix]) :
        Apply(o)

\* the --prefix values worth trying: those of the parents, and a bad one
PrefixInputs == { in.prefix : in \in ParentInputs } \cup { << "a" >> }

ItemOptions(type, prefix) ==
    IF type = "work" THEN [NoOptions EXCEPT !.prefix = prefix]
    ELSE [NoOptions EXCEPT !.area = prefix]

\* obsd new work [title] --prefix xx ;  obsd new post [title] --area xx
NewItem ==
    \E type \in {"work", "post"}, title \in Titles, prefix \in PrefixInputs :
      \E o \in NewCommand(config, dirs, files, type, title, ItemOptions(type, prefix)) :
        /\ o.exit = 1 \/ Cardinality(Items) < MaxItems
        /\ Apply(o)

\* the --item values of n letters worth trying: those in use, and one more
ItemInputsOf(fs, n) ==
    UNION { CodeOf(p[Len(p)], n) : p \in ItemsOf(fs) }
        \cup { IF n = 2 THEN TwoChars(0) ELSE ThreeChars(0) }

\* the invocations of `mark` worth trying: the well-formed ones, and one for
\* each way of being malformed
MarkInputsOf(fs) ==
    { [type |-> "work", prefix |-> p, item |-> i, status |-> st] :
        p \in { in.prefix : in \in ParentInputs }, i \in ItemInputsOf(fs, 2),
        st \in validStatuses \cup { <<"DONE">> } }
    \cup
    { [type |-> "post", prefix |-> p, item |-> i, status |-> st] :
        p \in { in.prefix : in \in ParentInputs }, i \in ItemInputsOf(fs, 3),
        st \in validStatuses \cup { <<"DONE">> } }
    \cup
    { [type |-> "note", prefix |-> << "a", "a" >>, item |-> TwoChars(0),
       status |-> <<"done">>],
      [type |-> "work", prefix |-> << "a" >>, item |-> TwoChars(0),
       status |-> <<"done">>],
      [type |-> "work", prefix |-> << "a", "a" >>, item |-> ThreeChars(0),
       status |-> <<"done">>],
      [type |-> "post", prefix |-> << "a", "b" >>, item |-> TwoChars(0),
       status |-> <<"done">>],
      [type |-> "work", prefix |-> << "a", "a" >>, item |-> TwoChars(0),
       status |-> <<"archived">>],
      [type |-> "post", prefix |-> << "a", "b" >>, item |-> ThreeChars(0),
       status |-> <<"archived">>] }

MarkOutcomes(cfg, ds, fs, in) ==
    MarkCommand(cfg, ds, fs, in.type, in.prefix, in.item, in.status)

\* obsd mark <type> --prefix xx --item yy --status s
Mark ==
    \E in \in MarkInputsOf(files) :
      \E o \in MarkOutcomes(config, dirs, files, in) : Apply(o)

\* an empty vault
NoFiles ==
    /\ dirs = { <<>> }
    /\ files = EmptyFiles

\* an empty vault, every invocation run as one step
InitVault ==
    /\ NoFiles
    /\ procs = <<>>

\* creating, archiving: any installed configuration, an empty vault
InitNew == config \in { PrefixedConfig, SlugOnlyConfig } /\ InitVault

NextNew == NewContainer \/ NewResource \/ Archive

SpecNew == InitNew /\ [][NextNew]_vars

\* items and their status: the README configuration, an empty vault
InitMark == config = PrefixedConfig /\ InitVault

NextMark == NewParent \/ NewItem \/ Mark

SpecMark == InitMark /\ [][NextMark]_vars

(***************************************************************************)
(* What `new` writes: any template body, any title                         *)
(***************************************************************************)
\* how many pieces a template body is made of, at most
MaxPieces == 2

VarOr(k, d) == << "{", "{", k, "|", d, "}", "}" >>

\* the pieces of a template body: text, a stray brace, the cursor marker, and
\* tokens with and without a default whose key `new` gives a value (title),
\* gives the empty value (content), does not give (missing) or does not give
\* while Object.prototype has it (constructor)
Pieces ==
    { << "# " >>, << "}" >>, CursorMarker,
      Var("title"), VarOr("content", "d"), VarOr("missing", "d"), Var("missing"),
      VarOr("constructor", "d") }

RECURSIVE BodiesOf(_)
BodiesOf(n) ==
    IF n = 0 THEN { <<>> }
    ELSE BodiesOf(n - 1) \cup { b \o p : b \in BodiesOf(n - 1), p \in Pieces }

RenderTitles == { << "T" >>, CursorMarker, CursorMarker \o CursorMarker }

\* the README configuration with `body` as the template of a resource
RenderConfig(body) ==
    [PrefixedConfig EXCEPT !.templates.resource.template = body]

InitRender ==
    /\ config \in { RenderConfig(body) : body \in BodiesOf(MaxPieces) }
    /\ InitVault

\* obsd new resource <title>
NewNote ==
    \E title \in RenderTitles :
      \E o \in NewCommand(config, dirs, files, "resource", title, NoOptions) : Apply(o)

NextRender == NewNote

SpecRender == InitRender /\ [][NextRender]_vars

(***************************************************************************)
(* Invocations followed call by call: between two file-system calls of one *)
(* invocation another invocation may run, or the process may be killed     *)
(***************************************************************************)
\* an invocation at its start; pc is "start", the call it is about to make, or
\* how it ended: "exit 0", "exit 1", "killed"
Invocation(cmd, type, title, prefix, item, status) ==
    [ cmd |-> cmd, type |-> type, title |-> title,
      prefix |-> prefix, item |-> item, status |-> status,
      pc |-> "start",
      existingPrefixes |-> {},     \* generateUniquePrefix: the Set
      gen |-> <<>>,                \* generateUniquePrefix: let prefix
      k |-> 0,                     \* createEntity: the fileDef the loop is at
      src |-> <<>>, dst |-> <<>>,  \* mark: sourcePath, targetPath
      content |-> NewFile(<<>>, <<>>) ]   \* mark: content

NewInvocation(type, title) == Invocation("new", type, title, <<>>, <<>>, <<>>)

Ended(proc) == proc.pc \in { "exit 0", "exit 1", "killed" }

At(i, cmd, pc) == i \in DOMAIN procs /\ procs[i].cmd = cmd /\ procs[i].pc = pc

\* process i moves on; the vault stays
Goto(i, proc) ==
    /\ procs' = [procs EXCEPT ![i] = proc]
    /\ UNCHANGED <<config, dirs, files>>

\* process i moves on after a call that changed the vault
GotoWith(i, proc, ds, fs) ==
    /\ procs' = [procs EXCEPT ![i] = proc]
    /\ dirs' = ds
    /\ files' = fs
    /\ UNCHANGED config

\* the variables and the template of `new <type> [title]` without options, the
\* prefix as generated
OptionsOf(proc) == [NoOptions EXCEPT !.prefix = proc.prefix]

VarsOf(proc) ==
    LET title == OrElse(proc.title, Untitled)
    IN  RenderVars(proc.type, title, slugify(title), OptionsOf(proc),
                   OrElse(proc.prefix, proc.gen), <<>>, <<>>, <<>>)

TemplateOf(cfg, proc) == cfg.templates[ActualType(proc.type, OptionsOf(proc))]

\* filePath of a single-file template, folderPath of a multi-file template
TargetOf(cfg, proc) ==
    LET template == TemplateOf(cfg, proc)
    IN  IF template.filePath # <<>>
        THEN PathOf(renderTemplate(template.filePath, VarsOf(proc)))
        ELSE PathOf(renderTemplate(template.folderPattern, VarsOf(proc)))

\* the template has one file
IsSingle(cfg, proc) == TemplateOf(cfg, proc).filePath # <<>>

\* createEntity up to the prefix: the template is looked up, the slug computed
NewStart(i) ==
    /\ At(i, "new", "start")
    /\ LET proc == procs[i]
       IN  IF proc.type \in {"project", "area"}
           THEN Goto(i, [proc EXCEPT !.pc =
                           IF proc.prefix = <<>> THEN "scan"
                           \* "Validate prefix uniqueness for custom prefixes"
                           ELSE IF validatePrefixUnique(proc.prefix, config, dirs, files)
                           THEN "check" ELSE "exit 1"])
           ELSE IF proc.type = "resource" /\ proc.prefix # <<>>
                   /\ FindIn(dirs, files, ResourcesDir(config), proc.prefix) # {}
           \* the `new` action puts the note into the entry of the prefix itself
           THEN \E d \in FindIn(dirs, files, ResourcesDir(config), proc.prefix) :
                  LET o == MergeResource(config, dirs, files, d,
                                         OrElse(proc.title, Untitled), OptionsOf(proc))
                  IN  GotoWith(i, [proc EXCEPT !.pc = IF o.exit = 0 THEN "exit 0"
                                                      ELSE "exit 1"],
                               o.dirs, o.files)
           ELSE Goto(i, [proc EXCEPT !.pc = "check"])

\* generateUniquePrefix: the two roots are read
NewScan(i) ==
    /\ At(i, "new", "scan")
    /\ Goto(i, [procs[i] EXCEPT !.pc = "sample",
                                !.existingPrefixes = ExistingPrefixes(config, dirs, files)])

\* the do-while loop draws a sample that is in the Set: once more
SampleTaken(i) ==
    /\ At(i, "new", "sample")
    /\ \E s \in TwoLetters \cap procs[i].existingPrefixes :
         Goto(i, [procs[i] EXCEPT !.gen = s])

\* the do-while loop draws a sample that is not in the Set: return prefix
SampleFree(i) ==
    /\ At(i, "new", "sample")
    /\ \E s \in TwoLetters \ procs[i].existingPrefixes :
         Goto(i, [procs[i] EXCEPT !.gen = s, !.pc = "check"])

\* if (existsSync(filePath)) process.exit(1), and the same for folderPath
NewCheck(i) ==
    /\ At(i, "new", "check")
    /\ Goto(i, [procs[i] EXCEPT !.pc = IF existsSync(dirs, files, TargetOf(config, procs[i]))
                                       THEN "exit 1" ELSE "mkdir"])

\* ensureDir(fileDir) of a single-file template, ensureDir(folderPath) of a
\* multi-file one
NewMkdir(i) ==
    /\ At(i, "new", "mkdir")
    /\ LET target == TargetOf(config, procs[i])
       IN  GotoWith(i, [procs[i] EXCEPT !.pc = "write", !.k = 1],
                    ensureDir(dirs, files,
                              IF IsSingle(config, procs[i]) THEN Dirname(target) ELSE target),
                    files)

\* the file the invocation is about to write: filePath of a single-file
\* template, join(folderPath, fileDef.name) in the loop of a multi-file one
FilePathOf(cfg, proc) ==
    IF IsSingle(cfg, proc) THEN TargetOf(cfg, proc)
    ELSE TargetOf(cfg, proc) \o PathOf(TemplateOf(cfg, proc).files[proc.k].name)

\* let content = renderTemplate(...); content = content.replace("{{cursor}}", "")
ContentOf(cfg, proc) ==
    LET template == TemplateOf(cfg, proc)
    IN  NewFile(FilePathOf(cfg, proc),
                RenderContent(IF IsSingle(cfg, proc) THEN template.template
                              ELSE template.files[proc.k].template,
                              VarsOf(proc)))

\* writeFileSync(filePath, content) of a single-file template; one turn of the
\* loop over template.files of a multi-file one: ensureDir(fileDir),
\* writeFileSync(filePath, content)
NewWrite(i) ==
    /\ At(i, "new", "write")
    /\ LET proc     == procs[i]
           filePath == FilePathOf(config, proc)
           last     == IsSingle(config, proc)
                         \/ proc.k = Len(TemplateOf(config, proc).files)
       IN  GotoWith(i, [proc EXCEPT !.pc = IF last THEN "exit 0" ELSE "write",
                                   !.k = proc.k + 1],
                    ensureDir(dirs, files, Dirname(filePath)),
                    writeFileSync(files, filePath, ContentOf(config, proc)))

(***************************************************************************)
(* slugify applied: `new resource <title>` for any short title             *)
(***************************************************************************)
\* how many characters a title has, at most
MaxTitleLen == 3

\* an upper-case letter, a lower-case one, a digit, a hyphen, a blank
TitleChars == { "A", "b", "1", "-", " " }

RECURSIVE StringsUpTo(_)
StringsUpTo(n) ==
    IF n = 0 THEN { <<>> }
    ELSE StringsUpTo(n - 1)
           \cup { Append(t, c) : t \in StringsUpTo(n - 1), c \in TitleChars }

\* one invocation of `new resource`, its title drawn
InitSlug ==
    /\ config = PrefixedConfig
    /\ NoFiles
    /\ procs \in { << NewInvocation("resource", title) >> : title \in StringsUpTo(MaxTitleLen) }

NextSlug == NewStart(1) \/ NewCheck(1) \/ NewMkdir(1) \/ NewWrite(1)

SpecSlug == InitSlug /\ [][NextSlug]_vars

(***************************************************************************)
(* Prefix generation call by call: `new project|area`, one after another   *)
(***************************************************************************)
AllEnded == \A i \in DOMAIN procs : Ended(procs[i])

\* obsd new project|area [title], once the invocation before has ended
Invoke ==
    /\ AllEnded
    /\ \E type \in {"project", "area"}, title \in Titles :
         procs' = << NewInvocation(type, title) >>
    /\ UNCHANGED <<config, dirs, files>>

InitGen ==
    /\ config = PrefixedConfig
    /\ NoFiles
    /\ procs = <<>>

\* what a running `new` does next
StepGen ==
    NewStart(1) \/ NewScan(1) \/ SampleTaken(1) \/ SampleFree(1)

NextGen ==
    \/ Invoke
    \/ NewStart(1)
    \/ NewScan(1)
    \/ SampleTaken(1)
    \/ SampleFree(1)
    \/ NewCheck(1)
    \/ NewMkdir(1)
    \/ NewWrite(1)

\* a process that can run does run, and Math.random() does not avoid a sample
\* for ever
SpecGen ==
    /\ InitGen
    /\ [][NextGen]_vars
    /\ WF_vars(StepGen)
    /\ WF_vars(SampleFree(1))

(***************************************************************************)
(* `mark` call by call, and a process that is killed on the way            *)
(***************************************************************************)
\* the two calls of the try block, in the order of the source
MoveCallsUnlinkFirst == << "unlink", "write" >>

\* try { writeFileSync(targetPath, content); unlinkSync(sourcePath); }
MoveCalls == << "write", "unlink" >>

\* let content = readFileSync(sourcePath), with the status replaced
MarkedContent(fs, sourcePath, type, statusLower) ==
    [fs[sourcePath] EXCEPT !.text = IF type = "work"
                                    THEN WorkContent(fs[sourcePath].text, statusLower)
                                    ELSE PostContent(fs[sourcePath].text, statusLower)]

\* the invocations of `mark` that reach markWork / markPost with a valid status:
\* for the work items of the project, for the posts of the area
WellFormedMarks(fs) ==
    { in \in MarkInputsOf(fs) :
        /\ in.type = (IF in.prefix = << "a", "a" >> THEN "work" ELSE "post")
        /\ in.status \in validStatuses
        /\ Len(in.prefix) = 2
        /\ Len(in.item) = (IF in.type = "work" THEN 2 ELSE 3) }

\* obsd mark <type> --prefix xx --item yy --status s, once the invocation
\* before has ended; a killed `mark` leaves a copy behind, and no more than
\* one copy is followed
MarkInvoke ==
    /\ AllEnded
    /\ Cardinality(Items) <= MaxItems
    /\ \E in \in WellFormedMarks(files) :
         procs' = << Invocation("mark", in.type, <<>>, in.prefix, in.item, in.status) >>
    /\ UNCHANGED <<config, dirs, files>>

\* the action of `mark` and markWork / markPost up to readFileSync: the checks,
\* the search for the source, the target path, the new content
MarkStart(i) ==
    /\ At(i, "mark", "start")
    /\ LET proc == procs[i]
       IN  \E o \in MarkCommand(config, dirs, files, proc.type, proc.prefix,
                                proc.item, proc.status) :
             Goto(i, IF o.exit = 1 THEN [proc EXCEPT !.pc = "exit 1"]
                     ELSE [proc EXCEPT !.pc = "mkdir", !.src = o.src, !.dst = o.path,
                                       !.content = MarkedContent(files, o.src, proc.type,
                                                                 ToLowerCase(proc.status))])

\* ensureDir(dirname(targetPath))
MarkMkdir(i) ==
    /\ At(i, "mark", "mkdir")
    /\ GotoWith(i, [procs[i] EXCEPT !.pc = "move", !.k = 1],
                ensureDir(dirs, files, Dirname(procs[i].dst)), files)

\* the next call of the try block
MarkMove(i) ==
    /\ At(i, "mark", "move")
    /\ LET proc == procs[i]
           next == [proc EXCEPT !.k = proc.k + 1,
                                !.pc = IF proc.k = Len(MoveCalls) THEN "exit 0" ELSE "move"]
       IN  IF MoveCalls[proc.k] = "write"
           THEN GotoWith(i, next, dirs, writeFileSync(files, proc.dst, proc.content))
           ELSE GotoWith(i, next, dirs, unlinkSync(files, proc.src))

\* the process is killed before its next call
Crash(i) ==
    /\ i \in DOMAIN procs
    /\ ~ Ended(procs[i])
    /\ Goto(i, [procs[i] EXCEPT !.pc = "killed"])

\* the parents and the items are made by whole invocations, before the first
\* `mark`: obsd new project|area [title] --prefix xx
SetUpParent == procs = <<>> /\ NewParent

\* obsd new work [title] --prefix aa ;  obsd new post [title] --area ab
SetUpItem ==
    /\ procs = <<>>
    /\ \E in \in ParentInputs, title \in Titles :
         LET type == IF in.type = "project" THEN "work" ELSE "post"
         IN  \E o \in NewCommand(config, dirs, files, type, title,
                                 ItemOptions(type, in.prefix)) :
               /\ o.exit = 1 \/ Cardinality(Items) < MaxItems
               /\ Apply(o)

InitCrash == config = PrefixedConfig /\ InitVault

NextCrash ==
    \/ SetUpParent
    \/ SetUpItem
    \/ MarkInvoke
    \/ MarkStart(1)
    \/ MarkMkdir(1)
    \/ MarkMove(1)
    \/ Crash(1)

SpecCrash == InitCrash /\ [][NextCrash]_vars

(***************************************************************************)
(* Two `new` invocations on one vault, their calls interleaved             *)
(***************************************************************************)
\* how many invocations run at a time
MaxProcs == 2

\* the titles of the two: two slugs for the projects and areas, one slug with
\* two contents for the resources
RaceInputs ==
    { [type |-> type, title |-> title] :
        type \in {"project", "area"}, title \in Titles \cup { << "U" >> } }
    \cup { [type |-> "resource", title |-> title] : title \in ResourceTitles }

\* obsd new <type> [title], while another invocation may be running
InvokeNew ==
    /\ Len(procs) < MaxProcs
    /\ \E in \in RaceInputs : procs' = Append(procs, NewInvocation(in.type, in.title))
    /\ UNCHANGED <<config, dirs, files>>

InitRace ==
    /\ config = PrefixedConfig
    /\ NoFiles
    /\ procs = <<>>

NextRace ==
    \/ InvokeNew
    \/ \E i \in 1..MaxProcs :
         \/ NewStart(i)
         \/ NewScan(i)
         \/ SampleTaken(i)
         \/ SampleFree(i)
         \/ NewCheck(i)
         \/ NewMkdir(i)
         \/ NewWrite(i)

SpecRace == InitRace /\ [][NextRace]_vars

(***************************************************************************)
(* `new` with the flags that select a template                             *)
(***************************************************************************)
\* how many notes the vault holds, at most
MaxNotes == 2

\* two titles with two slugs
ProbeTitlesOfSelect == { << "T" >>, << "U" >> }

\* README "Entity Types": an episode is one file under guests/ of its area,
\* a solo episode one file in the area itself
EpisodeTemplates ==
    [ episode      |-> SingleFile(<< "01_areas", "/" >> \o Var("area") \o << "/", "guests", "/" >>
                                      \o Var("slug") \o <<".md">>, QuicklinksTemplate),
      solo_episode |-> SingleFile(<< "01_areas", "/" >> \o Var("area") \o <<"/">>
                                      \o Var("slug") \o <<".md">>, QuicklinksTemplate) ]

AllTemplates == PrefixedConfig.templates @@ EpisodeTemplates

\* templates.yml without the template `name`
Without(name) ==
    [PrefixedConfig EXCEPT !.templates = [n \in DOMAIN AllTemplates \ {name} |-> AllTemplates[n]]]

\* the templates one may take out: those the flags select or replace, and none
DroppedTemplates ==
    { "episode", "solo_episode", "scratch", "scratch_root", "resource",
      "resource_folder", "none" }

\* the invocations: each type with and without its flag; `note` has no
\* template, --prefix aa stands for the project made of `new project`, and a
\* recipe is a file <prefix>_<slug>.md of the resources root
SelectInputs ==
    { [type |-> "episode", title |-> title, opts |-> [NoOptions EXCEPT !.solo = solo]] :
        title \in ProbeTitlesOfSelect, solo \in BOOLEAN }
    \cup
    { [type |-> "scratch", title |-> << "T" >>,
       opts |-> [NoOptions EXCEPT !.prefix = prefix, !.atRoot = atRoot]] :
        prefix \in { <<>>, << "a", "a" >> }, atRoot \in BOOLEAN }
    \cup
    { [type |-> "resource", title |-> title, opts |-> [NoOptions EXCEPT !.prefix = prefix]] :
        title \in ProbeTitlesOfSelect, prefix \in { <<>>, << "a", "a" >> } }
    \cup
    { [type |-> type, title |-> << "T" >>,
       opts |-> [NoOptions EXCEPT !.prefix = << "a", "a" >>]] :
        type \in {"project", "recipe", "note"} }

\* the notes made so far, the files a folder template declares apart
NotesMade ==
    { p \in DOMAIN files :
        p[Len(p)] \notin { <<"index.md">>, <<"quicklinks.md">>, <<".gitkeep">> } }

\* obsd new <type> [title] [--prefix xx] [--solo] [--at-root]
NewWithFlags ==
    \E in \in SelectInputs :
      \E o \in NewCommand(config, dirs, files, in.type, in.title, in.opts) :
        /\ o.exit = 1 \/ Cardinality(NotesMade) < MaxNotes
        /\ Apply(o)

InitSelect ==
    /\ config \in { Without(name) : name \in DroppedTemplates }
    /\ InitVault

NextSelect == NewWithFlags

SpecSelect == InitSelect /\ [][NextSelect]_vars

(***************************************************************************)
(* initVault and the `init` command                                        *)
(***************************************************************************)
\* const journalDirs = [...]
journalDirs ==
    << << "04_journal" >>, << "04_journal", "/", "daily" >>,
       << "04_journal", "/", "weeklies" >>, << "04_journal", "/", "experiments" >> >>

\* the seven roots in the order of the array literal
RootList(cfg) ==
    << cfg.roots.projectsRoot, cfg.roots.areasRoot, cfg.roots.resourcesRoot,
       cfg.roots.inboxRoot, cfg.roots.archiveProjectsRoot, cfg.roots.archiveAreasRoot,
       cfg.roots.archiveResourcesRoot >>

\* Set.add in a loop: the elements in the order of their first insertion
RECURSIVE AddAll(_, _)
AddAll(set, list) ==
    IF list = <<>> THEN set
    ELSE AddAll(IF \E k \in 1..Len(set) : set[k] = list[1] THEN set
                ELSE Append(set, list[1]),
                Tail(list))

\* dirsToCreate: `if (dir) dirsToCreate.add(dir)` for the roots, then the
\* journal directories
DirsToCreate(cfg) ==
    AddAll(AddAll(<<>>, SelectSeq(RootList(cfg), LAMBDA dir : dir # <<>>)), journalDirs)

\* for (const dir of dirsToCreate) { if (!existsSync(fullPath)) { mkdirSync(
\* fullPath, { recursive: true }); createdCount++ } }
RECURSIVE CreateAll(_, _, _, _)
CreateAll(ds, fs, list, createdCount) ==
    IF list = <<>> THEN [dirs |-> ds, createdCount |-> createdCount]
    ELSE IF existsSync(ds, fs, PathOf(list[1]))
         THEN CreateAll(ds, fs, Tail(list), createdCount)
         ELSE CreateAll(mkdirSync(ds, PathOf(list[1])), fs, Tail(list), createdCount + 1)

\* the heading that marks the section
ObsdMarker == "## obsd Commands"

\* generateAgentsMd(): the heading and the text under it
generateAgentsMd == << ObsdMarker, "Use obsd to create and manage notes ..." >>

agentsMdPath == << << "AGENTS.md" >> >>

\* a variant that appends the section whenever the document exists
AgentsMdAppended(fs) ==
    IF agentsMdPath \in DOMAIN fs
    THEN fs[agentsMdPath].text \o << "\n" >> \o generateAgentsMd
    ELSE generateAgentsMd

\* the content written to AGENTS.md
AgentsMd(fs) ==
    IF agentsMdPath \in DOMAIN fs
    THEN LET existing == fs[agentsMdPath].text
         IN  IF Includes(existing, ObsdMarker)
             THEN Split(existing, ObsdMarker)[1] \o generateAgentsMd
             ELSE existing \o << "\n" >> \o generateAgentsMd
    ELSE generateAgentsMd

\* the outcome of initVault(): the vault, the count it reports and whether
\* it printed "All directories already exist."
initVault(cfg, ds, fs) ==
    LET made == CreateAll(ds, fs, DirsToCreate(cfg), 0)
    IN  [ exit |-> 0,
          dirs |-> made.dirs,
          files |-> writeFileSync(fs, agentsMdPath, NewFile(agentsMdPath, AgentsMd(fs))),
          createdCount |-> made.createdCount,
          noneNeeded |-> made.createdCount = 0 ]

\* the texts of up to n tokens of the set S
RECURSIVE StringsOver(_, _)
StringsOver(S, n) ==
    IF n = 0 THEN { <<>> }
    ELSE StringsOver(S, n - 1) \cup { Append(t, c) : t \in StringsOver(S, n - 1), c \in S }

\* how many tokens of text the user puts into AGENTS.md, at most
MaxDocLen == 2

\* how many directories the vault has when one more is made by hand, at most
MaxDirs == 3

\* what the user writes: text, and the heading of the section
DocTokens == { "mine", "\n", ObsdMarker }

\* the configurations: the roots of the README, one root left out, a root
\* inside the journal
InitConfigs ==
    { PrefixedConfig,
      [PrefixedConfig EXCEPT !.roots.inboxRoot = <<>>],
      [PrefixedConfig EXCEPT !.roots.inboxRoot = << "04_journal", "/", "inbox" >>] }

\* obsd init
InitCommand ==
    LET o == initVault(config, dirs, files)
    IN  Apply(o)

\* the user writes AGENTS.md
EditAgentsMd ==
    /\ \E text \in StringsOver(DocTokens, MaxDocLen) :
         files' = writeFileSync(files, agentsMdPath, NewFile(agentsMdPath, text))
    /\ UNCHANGED <<config, dirs, procs>>

\* the user adds a line at the end of AGENTS.md
AppendToAgentsMd ==
    /\ agentsMdPath \in DOMAIN files
    /\ Len(files[agentsMdPath].text) < MaxDocLen + Len(generateAgentsMd)
    /\ files' = [files EXCEPT ![agentsMdPath].text = Append(@, "mine")]
    /\ UNCHANGED <<config, dirs, procs>>

\* the user, or a command of the tool, makes one of the directories
MakeDirectory ==
    /\ Cardinality(dirs) < MaxDirs
    /\ \E k \in 1..Len(DirsToCreate(config)) :
         dirs' = ensureDir(dirs, files, PathOf(DirsToCreate(config)[k]))
    /\ UNCHANGED <<config, files, procs>>

InitInit ==
    /\ config \in InitConfigs
    /\ InitVault

NextInit == InitCommand \/ EditAgentsMd \/ AppendToAgentsMd \/ MakeDirectory

SpecInit == InitInit /\ [][NextInit]_vars

(***************************************************************************)
(* `new` from a multi-file template with a write that fails                *)
(***************************************************************************)
\* a variant that removes the folder when a write throws
WriteFailsRolledBack(i) ==
    /\ At(i, "new", "write")
    /\ LET folder == TargetOf(config, procs[i])
       IN  GotoWith(i, [procs[i] EXCEPT !.pc = "exit 1"],
                    { d \in dirs : d # folder /\ ~ IsUnder(d, folder) },
                    [q \in { q \in DOMAIN files : ~ IsUnder(q, folder) } |-> files[q]])

\* writeFileSync throws (no space, no permission): nobody catches it
WriteFails(i) ==
    /\ At(i, "new", "write")
    /\ Goto(i, [procs[i] EXCEPT !.pc = "exit 1"])

\* the invocations: a project and an area with a generated and with a given
\* prefix, a resource folder
FolderInputs ==
    { [type |-> type, title |-> title, prefix |-> prefix] :
        type \in {"project", "area"}, title \in Titles,
        prefix \in { <<>>, << "a", "a" >> } }
    \cup { [type |-> "resource", title |-> title, prefix |-> << "a", "a" >>] :
             title \in Titles }

\* obsd new <type> [title] [--prefix xx], once the invocation before has ended
InvokeFolder ==
    /\ AllEnded
    /\ Cardinality(Entries) < MaxEntries
    /\ \E in \in FolderInputs :
         procs' = << Invocation("new", in.type, in.title, in.prefix, <<>>, <<>>) >>
    /\ UNCHANGED <<config, dirs, files>>

InitPartial == config \in { PrefixedConfig, SlugOnlyConfig } /\ InitVault

NextPartial ==
    \/ InvokeFolder
    \/ NewStart(1)
    \/ NewScan(1)
    \/ SampleTaken(1)
    \/ SampleFree(1)
    \/ NewCheck(1)
    \/ NewMkdir(1)
    \/ NewWrite(1)
    \/ WriteFails(1)

SpecPartial == InitPartial /\ [][NextPartial]_vars

(***************************************************************************)
(* Properties of `new project` and `new area`                              *)
(***************************************************************************)
\* the titles a further `new` is tried with: one in use, one not
ProbeTitles == Titles \cup { << "U" >> }

\* the prefix of an entry: the part of its name before the first underscore
PrefixPart(name) == Split(name, "_")[1]

\* the entries of the projects root and of the areas root that carry a prefix
PrefixedEntries ==
    { p \in dirs \cup DOMAIN files :
        /\ Dirname(p) \in { ProjectsDir(config), AreasDir(config) }
        /\ Includes(p[Len(p)], "_") }

PrefixesInUse == { PrefixPart(p[Len(p)]) : p \in PrefixedEntries }

WithPrefix(prefix) == [NoOptions EXCEPT !.prefix = prefix]

Unchanged(o) == o.dirs = dirs /\ o.files = files

\* C1: a prefix that `new project` or `new area` generates has two letters and
\* differs from the prefix of every entry that the projects root and the areas
\* root hold at that moment
GeneratedPrefixIsFresh ==
    /\ \A g \in generateUniquePrefix(config, dirs, files) :
         Len(g) = 2 /\ g \notin PrefixesInUse
    /\ \A type \in {"project", "area"}, title \in ProbeTitles :
         \A o \in NewCommand(config, dirs, files, type, title, NoOptions) :
           o.exit = 0 => Len(o.gen) = 2 /\ o.gen \notin PrefixesInUse

\* a project and an area exist whose prefixes were both generated, and a further
\* prefix can be generated
WitnessGeneratedPrefix ==
    /\ \E p, q \in PrefixedEntries :
         /\ Dirname(p) = ProjectsDir(config) /\ Dirname(q) = AreasDir(config)
         /\ { PrefixPart(p[Len(p)]), PrefixPart(q[Len(q)]) } \subseteq TwoLetters \ CustomPrefixes
    /\ generateUniquePrefix(config, dirs, files) # {}

ResourceTarget(title) == ResourcesDir(config) \o << slugify(title) \o << ".md" >> >>

\* C4: `new resource <title>` exits 1 and changes nothing when the file of the
\* title exists; otherwise it writes the file, and the same `new` again exits 1
\* and changes nothing
SingleFileNewRefusesExisting ==
    \A title \in ProbeTitles :
      LET outs == NewCommand(config, dirs, files, "resource", title, NoOptions)
      IN  /\ outs # {}
          /\ \A o \in outs :
               IF existsSync(dirs, files, ResourceTarget(title))
               THEN o.exit = 1 /\ Unchanged(o)
               ELSE /\ o.exit = 0
                    /\ ResourceTarget(title) \in DOMAIN o.files
                    /\ \A p \in DOMAIN files : p \in DOMAIN o.files /\ o.files[p] = files[p]
                    /\ \A o2 \in NewCommand(config, o.dirs, o.files, "resource", title,
                                            NoOptions) :
                         o2.exit = 1 /\ o2.dirs = o.dirs /\ o2.files = o.files

\* a resource was created and creating it again is refused
WitnessResourceTwice ==
    \E title \in Titles :
      /\ ResourceTarget(title) \in DOMAIN files
      /\ files[ResourceTarget(title)].origin = ResourceTarget(title)
      /\ \E o \in NewCommand(config, dirs, files, "resource", title, NoOptions) :
           o.exit = 1 /\ Unchanged(o)

\* the folder the installed folderPattern renders to
ExpectedFolder(type, prefix, title) ==
    PathOf(RootOf(config, type))
        \o << IF config = PrefixedConfig THEN prefix \o << "_" >> \o slugify(title)
              ELSE slugify(title) >>

DeclaredFiles(type, folder) ==
    { folder \o PathOf(config.templates[type].files[k].name) :
        k \in 1..Len(config.templates[type].files) }

\* C5: `new project|area` exits 1 and changes nothing when the rendered folder
\* exists; when it succeeds, the folder (<prefix>_<slug> under the README
\* configuration) did not exist, exists now and holds exactly the files the
\* template declares, and nothing else changed
MultiFileNewCreatesFolder ==
    \A type \in {"project", "area"}, title \in ProbeTitles,
       prefix \in { <<>> } \cup CustomPrefixes :
      LET candidates == IF prefix = <<>> THEN TwoLetters ELSE { prefix }
      IN  \A o \in NewCommand(config, dirs, files, type, title, WithPrefix(prefix)) :
            /\ (\A g \in candidates :
                   existsSync(dirs, files, ExpectedFolder(type, g, title)))
                 => o.exit = 1
            /\ o.exit = 1 => Unchanged(o)
            /\ o.exit = 0 =>
                 \E g \in candidates :
                   /\ prefix = <<>> => g = o.gen
                   /\ ~ existsSync(dirs, files, ExpectedFolder(type, g, title))
                   /\ ExpectedFolder(type, g, title) \in o.dirs
                   /\ { p \in DOMAIN o.files : IsUnder(p, ExpectedFolder(type, g, title)) }
                        = DeclaredFiles(type, ExpectedFolder(type, g, title))
                   /\ \A p \in DOMAIN files : p \in DOMAIN o.files /\ o.files[p] = files[p]

\* a project folder with exactly the declared files exists, and under the
\* configuration whose folders are named by the slug a second `new project` of
\* the title is refused
WitnessFolderExists ==
    /\ config = SlugOnlyConfig
    /\ \E title \in Titles :
         /\ ExpectedFolder("project", <<>>, title) \in dirs
         /\ { p \in DOMAIN files : IsUnder(p, ExpectedFolder("project", <<>>, title)) }
              = DeclaredFiles("project", ExpectedFolder("project", <<>>, title))
         /\ \E o \in NewCommand(config, dirs, files, "project", title, NoOptions) :
              o.exit = 1

\* C6: no file that `new` wrote contains the marker {{cursor}}
NoCursorMarkerInFiles ==
    \A p \in DOMAIN files : IndexOf(files[p].text, CursorMarker) = 0

(***************************************************************************)
(* Properties of `mark`                                                    *)
(***************************************************************************)
\* of an item path <status area>/<status>/<name>: the status folder's name and
\* the folder that holds the four status folders
StatusOf(p) == p[Len(p) - 1]
StatusArea(p) == SubSeq(p, 1, Len(p) - 2)

\* <rest> of a file name <code>_<rest>
Rest(name, code) == SubSeq(name, Len(code) + 2, Len(name))

ItemsUnder(fs, area) == { p \in ItemsOf(fs) : StatusArea(p) = area }

\* the files `new` created that are still in the vault, by where they were created
Origins(fs) == { fs[p].origin : p \in DOMAIN fs }

\* C3: no step of the tool removes a file that `new` created: every file of the
\* vault before the step is in the vault after it, where it was or moved
NothingIsDeleted == [][Origins(files) \subseteq Origins(files')]_vars

\* C7: a `mark` that exits 0 found an item whose name starts with the code; when
\* the target status is not the item's folder and no file of the destination
\* name is in the target folder, afterwards the item is at the destination, not
\* at the source, and the status area holds as many items as before
MarkOnlyRelocates ==
    \A in \in MarkInputsOf(files) :
      \A o \in MarkOutcomes(config, dirs, files, in) :
        o.exit = 0 =>
          LET st   == ToLowerCase(in.status)
              name == o.src[Len(o.src)]
              dest == StatusArea(o.src)
                         \o << st, IF st = << "done" >> THEN Rest(name, in.item) ELSE name >>
          IN  /\ o.src \in ItemsOf(files)
              /\ StartsWith(name, in.item \o << "_" >>)
              /\ (StatusOf(o.src) # st /\ dest \notin DOMAIN files) =>
                   /\ dest \in DOMAIN o.files
                   /\ o.files[dest].origin = files[o.src].origin
                   /\ o.src \notin DOMAIN o.files
                   /\ Cardinality(ItemsUnder(o.files, StatusArea(o.src)))
                        = Cardinality(ItemsUnder(files, StatusArea(o.src)))

\* an item created in backlog is in the active folder
WitnessRelocated ==
    \E p \in Items :
      /\ StatusOf(p) = << "active" >>
      /\ StatusOf(files[p].origin) = << "backlog" >>
      /\ p[Len(p)] = files[p].origin[Len(p)]

\* C8: `mark --status done` that exits 0 found <code>_<rest>, wrote it to the done
\* folder as <rest> without a status tag line (a work item with the field
\* "status: Done"), and the file it found is gone
MarkDoneStripsCode ==
    \A in \in MarkInputsOf(files) :
      ToLowerCase(in.status) = << "done" >> =>
        \A o \in MarkOutcomes(config, dirs, files, in) :
          o.exit = 0 =>
            LET name == o.src[Len(o.src)]
                dest == StatusArea(o.src) \o << << "done" >>, Rest(name, in.item) >>
            IN  /\ StartsWith(name, in.item \o << "_" >>)
                /\ dest \in DOMAIN o.files
                /\ o.files[dest].origin = files[o.src].origin
                /\ ~ Includes(o.files[dest].text, "- status/")
                /\ in.type = "work" =>
                     /\ IndexOf(o.files[dest].text, << "\n", "status: ", "Done", "\n" >>) # 0
                     /\ Cardinality({ i \in 1..Len(o.files[dest].text) :
                                        o.files[dest].text[i] = "status: " }) = 1
                /\ o.src \notin DOMAIN o.files

\* a work item and a post are in their done folders under names without a code
WitnessMarkedDone ==
    \E p, q \in Items :
      /\ StatusOf(p) = << "done" >> /\ StatusOf(q) = << "done" >>
      /\ StatusArea(p)[Len(StatusArea(p))] = << "work" >>
      /\ StatusArea(q)[Len(StatusArea(q))] # << "work" >>
      /\ ~ Includes(p[Len(p)], "_") /\ ~ Includes(q[Len(q)], "_")
      /\ ~ Includes(files[p].text, "- status/")

\* C9: `mark --status s` with s backlog, active or review that exits 0 leaves the
\* item in the folder s under the name it had, with the tag status/s (a work
\* item with the field "status: S")
MarkMovesToStatusFolder ==
    \A in \in MarkInputsOf(files) :
      in.status \in { << "backlog" >>, << "active" >>, << "review" >> } =>
        \A o \in MarkOutcomes(config, dirs, files, in) :
          o.exit = 0 =>
            LET dest == StatusArea(o.src) \o << in.status, o.src[Len(o.src)] >>
            IN  /\ dest \in DOMAIN o.files
                /\ IndexOf(o.files[dest].text, << "- status/" >> \o in.status) # 0
                /\ in.type = "work" =>
                     IndexOf(o.files[dest].text,
                             << "status: " >> \o Capitalized(in.status)) # 0

\* the folders that hold the four status folders of the parents `prefix` names
StatusAreasFor(type, prefix) ==
    LET Named(root) == { root \o << d >> : d \in { e \in Listing(dirs, files, root) :
                                                    StartsWith(e, prefix \o << "_" >>) } }
    IN  IF type = "work"
        THEN { d \o << << "work" >> >> :
                 d \in Named(ProjectsDir(config)) \cup Named(AreasDir(config)) }
        ELSE Named(AreasDir(config))

ItemFound(in) ==
    \E p \in DOMAIN files :
      /\ Len(p) > 2
      /\ StatusArea(p) \in StatusAreasFor(in.type, in.prefix)
      /\ StatusOf(p) \in validStatuses
      /\ StartsWith(p[Len(p)], in.item \o << "_" >>)

\* the invocations of `mark` that must be refused
Malformed(in, statusOk) ==
    \/ in.type \notin {"work", "post"}
    \/ Len(in.prefix) # 2
    \/ in.type = "work" /\ Len(in.item) # 2
    \/ in.type = "post" /\ Len(in.item) # 3
    \/ ~ statusOk
    \/ StatusAreasFor(in.type, in.prefix) = {}
    \/ ~ ItemFound(in)

Refused(in) ==
    /\ MarkOutcomes(config, dirs, files, in) # {}
    /\ \A o \in MarkOutcomes(config, dirs, files, in) : o.exit = 1 /\ Unchanged(o)

\* C10, with the status compared in lower case: `mark` exits 1 and changes
\* nothing when the type is not work or post, --prefix has not 2 characters,
\* --item has not 2 (work) or 3 (post) characters, the status in lower case is
\* none of backlog, active, review, done, no parent has the prefix, or no file
\* of the parent's status folders starts with <item>_
MarkRefusesMalformed ==
    \A in \in MarkInputsOf(files) :
      Malformed(in, ToLowerCase(in.status) \in validStatuses) => Refused(in)

\* C10 as stated: the status compared as given
MarkRefusesMalformedExact ==
    \A in \in MarkInputsOf(files) :
      Malformed(in, in.status \in validStatuses) => Refused(in)

\* items exist, and a well-formed `mark` naming a parent that has no file of the
\* item code is refused
WitnessMarkRefused ==
    /\ Items # {}
    /\ \E in \in MarkInputsOf(files) :
         /\ in.type \in {"work", "post"}
         /\ in.status \in validStatuses
         /\ StatusAreasFor(in.type, in.prefix) # {}
         /\ ~ ItemFound(in)
         /\ Refused(in)

(***************************************************************************)
(* Properties of `archive`                                                 *)
(***************************************************************************)
ValidArchiveTypes == {"project", "area", "resource"}

ArchiveSource(type, name) == PathOf(RootOf(config, type)) \o PathOf(name)
ArchiveTarget(type, name) == PathOf(ArchiveOf(config, type)) \o PathOf(name)

\* p is the entry at src or lies in it
InEntry(p, src) == p = src \/ IsUnder(p, src)

\* the outcome o has the entry that was at src at dst, every file with the
\* content it had, and nothing at src
EntryMoved(o, src, dst) ==
    /\ existsSync(dirs, files, src)
    /\ ~ \E p \in o.dirs \cup DOMAIN o.files : InEntry(p, src)
    /\ \A p \in DOMAIN files :
         InEntry(p, src) => /\ Rebase(p, src, dst) \in DOMAIN o.files
                            /\ o.files[Rebase(p, src, dst)] = files[p]
    /\ \A d \in dirs : InEntry(d, src) => Rebase(d, src, dst) \in o.dirs
    /\ \A q \in DOMAIN o.files :
         InEntry(q, dst) => \E p \in DOMAIN files : InEntry(p, src) /\ q = Rebase(p, src, dst)
    /\ \A q \in o.dirs :
         InEntry(q, dst) => \E d \in dirs \cup DOMAIN files : InEntry(d, src) /\ q = Rebase(d, src, dst)

\* apart from the entry at src, from dst and from what `spared` names, the
\* outcome o has the files and folders the vault had, and no others but the
\* folders that lead to dst
RestUnchanged(o, src, dst, spared) ==
    /\ \A p \in DOMAIN files \ spared :
         ~ InEntry(p, src) => p \in DOMAIN o.files /\ o.files[p] = files[p]
    /\ \A d \in dirs \ spared : ~ InEntry(d, src) => d \in o.dirs
    /\ \A q \in DOMAIN o.files : ~ InEntry(q, dst) => q \in DOMAIN files
    /\ \A q \in o.dirs : ~ InEntry(q, dst) => q \in dirs \/ IsUnder(dst, q)

\* `archive` that exits 0, sparing the path of the destination or nothing
Archived(spareTarget) ==
    \A type \in ValidArchiveTypes, name \in ArchiveNames :
      LET o   == ArchiveCommand(config, dirs, files, type, name)
          src == ArchiveSource(type, name)
          dst == ArchiveTarget(type, name)
      IN  o.exit = 0 => EntryMoved(o, src, dst) /\ RestUnchanged(o, src, dst, IF spareTarget THEN { dst } ELSE {})

\* C11, but for an entry of the same name already in the archive root: an
\* `archive` that exits 0 has moved the entry to the archive root under its
\* name with every file in it as it was, nothing is left at the source, and
\* everything else but the path of the destination is as it was
ArchiveMovesEntry == Archived(TRUE)

\* C11 as stated: everything else in the vault is as it was
ArchiveChangesNothingElse == Archived(FALSE)

\* a project folder is in the archive with the files `new` wrote in the
\* projects root, and the projects root holds no entry
WitnessArchived ==
    /\ Listing(dirs, files, ProjectsDir(config)) = {}
    /\ \E p \in DOMAIN files :
         /\ IsUnder(p, PathOf(config.roots.archiveProjectsRoot))
         /\ IsUnder(files[p].origin, ProjectsDir(config))
         /\ p = Rebase(files[p].origin, ProjectsDir(config),
                       PathOf(config.roots.archiveProjectsRoot))

\* the move cannot be made: an entry of the name is in the archive root and is
\* a folder with entries, or a folder where a file is moved, or a file where a
\* folder is moved
Collides(src, dst) ==
    /\ existsSync(dirs, files, dst)
    /\ ~ (src \in DOMAIN files /\ dst \in DOMAIN files)
    /\ ~ (/\ src \in dirs /\ dst \in dirs
          /\ ~ \E p \in dirs \cup DOMAIN files : IsUnder(p, dst))

\* the exit code of `archive`, a failing move counted among the refusals or not
ArchiveExits(moveMayFail) ==
    \A type \in ArchiveTypes, name \in ArchiveNames :
      LET o == ArchiveCommand(config, dirs, files, type, name)
      IN  IF \/ type \notin ValidArchiveTypes
             \/ ~ existsSync(dirs, files, ArchiveSource(type, name))
             \/ moveMayFail /\ Collides(ArchiveSource(type, name), ArchiveTarget(type, name))
          THEN o.exit = 1 /\ Unchanged(o)
          ELSE o.exit = 0

\* C12, with the failing move: `archive` exits 1 and changes nothing when the
\* type is none of project, area, resource, when the source does not exist,
\* or when the move fails on an entry of the name in the archive root; in every
\* other case it exits 0
ArchiveExitCodes == ArchiveExits(TRUE)

\* C12 as stated: exit 1 for a wrong type or a missing source, else exit 0
ArchiveExitCodesExact == ArchiveExits(FALSE)

\* an entry is in its root and an entry of its name is in the archive root, the
\* `archive` of it exits 1, and the `archive` of a missing name exits 1
WitnessArchiveRefused ==
    /\ \E type \in ValidArchiveTypes, name \in ArchiveNames :
         /\ existsSync(dirs, files, ArchiveSource(type, name))
         /\ existsSync(dirs, files, ArchiveTarget(type, name))
         /\ ArchiveCommand(config, dirs, files, type, name).exit = 1
    /\ ArchiveCommand(config, dirs, files, "project", << "missing" >>).exit = 1

(***************************************************************************)
(* Properties of renderTemplate                                            *)
(***************************************************************************)
\* the sequences of at most n pieces
RECURSIVE PieceSeqs(_)
PieceSeqs(n) ==
    IF n = 0 THEN { <<>> }
    ELSE PieceSeqs(n - 1) \cup { Append(s, p) : s \in PieceSeqs(n - 1), p \in Pieces }

RECURSIVE Flatten(_)
Flatten(seq) == IF seq = <<>> THEN <<>> ELSE seq[1] \o Flatten(Tail(seq))

\* the ways the installed body of the resource template is made of pieces
BodyPieces ==
    { s \in PieceSeqs(MaxPieces) : Flatten(s) = config.templates.resource.template }

\* the mapping `new resource <title>` renders with
NoteVars(title) ==
    RenderVars("resource", title, slugify(title), NoOptions, <<>>, <<>>, <<>>, <<>>)

\* a piece {{key}} or {{key|default}}: what is between the braces, the key, the
\* default
IsToken(piece) == Len(piece) >= 5 /\ piece[1] = "{" /\ piece[2] = "{"
Inner(piece) == SubSeq(piece, 3, Len(piece) - 2)
HasDefault(piece) == Includes(Inner(piece), "|")
KeyOf(piece) == Split(Inner(piece), "|")[1]
DefaultOf(piece) == Split(Inner(piece), "|")[2]

DefaultOrEmpty(piece) == IF HasDefault(piece) THEN DefaultOf(piece) ELSE <<>>

\* what a piece renders as: the value when the mapping has the key, also the
\* empty value; else the default; else nothing
PresentWins(piece, vs) ==
    IF ~ IsToken(piece) THEN piece
    ELSE IF KeyOf(piece) \in DOMAIN vs THEN vs[KeyOf(piece)]
    ELSE DefaultOrEmpty(piece)

\* what a piece renders as: the value when the mapping has the key with a value
\* that is not empty; else the default; else nothing
NonEmptyWins(piece, vs) ==
    IF ~ IsToken(piece) THEN piece
    ELSE IF KeyOf(piece) \in DOMAIN vs /\ vs[KeyOf(piece)] # <<>> THEN vs[KeyOf(piece)]
    ELSE DefaultOrEmpty(piece)

\* what a piece renders as: what looking the key up in the mapping yields when
\* it yields anything, also the empty value; else the default; else nothing
LookupWins(piece, vs) ==
    IF ~ IsToken(piece) THEN piece
    ELSE IF HasValue(vs, KeyOf(piece)) THEN Lookup(vs, KeyOf(piece))
    ELSE DefaultOrEmpty(piece)

Rendered(rule, piece, vs) ==
    CASE rule = "present"  -> PresentWins(piece, vs)
      [] rule = "nonempty" -> NonEmptyWins(piece, vs)
      [] rule = "lookup"   -> LookupWins(piece, vs)

\* every note in the vault has the text its template body renders to piece by
\* piece under the rule, the first cursor marker of the result removed
NotesRenderedBy(rule) ==
    \A title \in RenderTitles :
      ResourceTarget(title) \in DOMAIN files =>
        \A s \in BodyPieces :
          files[ResourceTarget(title)].text
            = RemoveCursor(Flatten([ i \in 1..Len(s) |->
                                       Rendered(rule, s[i], NoteVars(title)) ]))

\* C13: {{key|fallback}} renders as the fallback when the mapping has no key
\* `key` and as the mapping's value when it has, the empty value included;
\* {{key}} renders as nothing when the mapping has no key `key`
PresentValueWinsOverFallback == NotesRenderedBy("present")

\* C14 as stated: {{key|default}} renders as the default when the mapping's value
\* is absent or empty, as the value when it is not empty, as nothing without
\* value and default
DefaultReplacesEmptyValue == NotesRenderedBy("nonempty")

\* C14, the default standing in only for a key whose lookup yields nothing:
\* a token renders as what the lookup of the key yields whenever it yields a
\* value, the empty value included, else as the default, else as nothing
DefaultReplacesMissingValue == NotesRenderedBy("lookup")

\* a note was written from the body {{content|d}}{{missing|d}}: the empty
\* content stays, the missing key gives the default
WitnessDefaultRendered ==
    /\ config.templates.resource.template = VarOr("content", "d") \o VarOr("missing", "d")
    /\ \E title \in RenderTitles :
         /\ ResourceTarget(title) \in DOMAIN files
         /\ files[ResourceTarget(title)].text = << "d" >>

(***************************************************************************)
(* Properties of slugify                                                   *)
(***************************************************************************)
\* <name> of a file <name>.md
Stem(file) == SubSeq(file, 1, Len(file) - 1)

\* lower-case letters, digits and hyphens, no hyphen first, last or next to
\* another
WellFormedSlug(slug) ==
    /\ \A k \in 1..Len(slug) : slug[k] \in LowerLetters \cup Digits \cup { "-" }
    /\ slug # <<>> => slug[1] # "-" /\ slug[Len(slug)] # "-"
    /\ \A k \in 1..(Len(slug) - 1) : ~ (slug[k] = "-" /\ slug[k + 1] = "-")

\* C15: the slug `new` names a note by is the slug of its title, the slug of
\* that slug is the same slug, and it is made of lower-case letters, digits
\* and hyphens, with no hyphen first, last or next to another
SlugifyIsIdempotent ==
    \A i \in DOMAIN procs :
      procs[i].pc = "exit 0" =>
        \A p \in DOMAIN files :
          LET slug == Stem(p[Len(p)])
          IN  /\ slug = slugify(OrElse(procs[i].title, Untitled))
              /\ slugify(slug) = slug
              /\ slugify(slugify(procs[i].title)) = slugify(procs[i].title)
              /\ WellFormedSlug(slug)

\* the note of the title "A b" is in the vault under the slug a-b
WitnessSlug ==
    /\ procs[1].title = << "A", " ", "b" >>
    /\ procs[1].pc = "exit 0"
    /\ \E p \in DOMAIN files : Stem(p[Len(p)]) = << "a", "-", "b" >>

(***************************************************************************)
(* Properties of `new --prefix`                                            *)
(***************************************************************************)
\* the types of `new` that take --prefix
PrefixTypes == { "project", "area", "work", "scratch", "resource", "recipe" }

\* prefixes of one and of three characters
BadPrefixes == { << "a" >>, << "a", "a", "b" >> }

\* C16: `new <type> --prefix p` with p of a length other than 2 exits 1 and
\* changes nothing, for every type that takes a prefix
PrefixLengthIsChecked ==
    \A type \in PrefixTypes, title \in ProbeTitles, prefix \in BadPrefixes :
      LET outs == NewCommand(config, dirs, files, type, title, WithPrefix(prefix))
      IN  outs # {} /\ \A o \in outs : o.exit = 1 /\ Unchanged(o)

(***************************************************************************)
(* Properties of item codes                                                *)
(***************************************************************************)
\* the files in the four status folders of a container
InStatusFolders(fs, area) ==
    { p \in DOMAIN fs : Len(p) > 2 /\ StatusArea(p) = area /\ StatusOf(p) \in validStatuses }

\* the file name starts with <code>_
Coded(p) == Includes(p[Len(p)], "_")

\* C17: a code that `new work` or `new post` generates has two or three letters
\* and is the code of no file in the four status folders of the container at
\* that moment, and no two files in the status folders of one container start
\* with the same <code>_
ItemCodesAreUnique ==
    /\ \A p, q \in DOMAIN files :
         /\ Len(p) > 2 /\ Len(q) > 2
         /\ StatusArea(p) = StatusArea(q)
         /\ StatusOf(p) \in validStatuses /\ StatusOf(q) \in validStatuses
         /\ Coded(p) /\ Coded(q)
         /\ PrefixPart(p[Len(p)]) = PrefixPart(q[Len(q)])
         => p = q
    /\ \A type \in {"work", "post"}, prefix \in PrefixInputs, title \in ProbeTitles :
         \A o \in NewCommand(config, dirs, files, type, title, ItemOptions(type, prefix)) :
           o.exit = 0 =>
             /\ Len(o.code) = (IF type = "work" THEN 2 ELSE 3)
             /\ StartsWith(o.path[Len(o.path)], o.code \o << "_" >>)
             /\ \A p \in InStatusFolders(files, StatusArea(o.path)) :
                  ~ StartsWith(p[Len(p)], o.code \o << "_" >>)

\* two items with codes are in different status folders of one container
WitnessTwoCodes ==
    \E p, q \in Items :
      /\ StatusArea(p) = StatusArea(q)
      /\ StatusOf(p) # StatusOf(q)
      /\ Coded(p) /\ Coded(q)

(***************************************************************************)
(* Properties of the prefix loop                                           *)
(***************************************************************************)
\* C18: prefix generation always ends: every `new project|area` that reaches
\* the sampling loop leaves it, also when every two-letter prefix is in use
GenerationTerminates ==
    At(1, "new", "sample") ~> (1 \in DOMAIN procs /\ procs[1].pc # "sample")

\* when a sample is free the loop is left, with a sample that was not in use
\* when the roots were read
FreeSampleIsReturned ==
    (At(1, "new", "sample") /\ TwoLetters \ procs[1].existingPrefixes # {})
        ~> (At(1, "new", "check") /\ procs[1].gen \notin procs[1].existingPrefixes)

(***************************************************************************)
(* Properties of `mark`, call by call                                      *)
(***************************************************************************)
\* a `mark` that found its source and moves it to another path
Moving(proc) ==
    /\ proc.cmd = "mark"
    /\ proc.src # <<>>
    /\ proc.src # proc.dst

\* the item is at the source, or the new content is at the destination
AtSource(proc) ==
    proc.src \in DOMAIN files /\ files[proc.src].origin = proc.content.origin
AtTarget(proc) ==
    proc.dst \in DOMAIN files /\ files[proc.dst] = proc.content

\* the first call of the try block is made, the second is not
BetweenTheCalls(proc) == proc.pc \in {"move", "killed"} /\ proc.k = 2

\* C19: while `mark` moves an item to another path, the item is at the source
\* or at the destination after every call; between writeFileSync and
\* unlinkSync, and when the process is killed there, it is at both; and
\* the source is removed only when the destination holds the new content
MarkWritesBeforeItRemoves ==
    \A i \in DOMAIN procs :
      LET proc == procs[i]
      IN  Moving(proc) =>
            /\ AtSource(proc) \/ AtTarget(proc)
            /\ BetweenTheCalls(proc) => AtSource(proc) /\ AtTarget(proc)
            /\ ~ AtSource(proc) => AtTarget(proc) /\ proc.pc \in {"exit 0", "killed"}

\* a `mark` to another path was killed between its two calls: both copies
WitnessKilledBetween ==
    \E i \in DOMAIN procs :
      /\ Moving(procs[i])
      /\ procs[i].pc = "killed"
      /\ procs[i].k = 2
      /\ AtSource(procs[i])
      /\ AtTarget(procs[i])

(***************************************************************************)
(* Properties of two interleaved `new` invocations                         *)
(***************************************************************************)
\* both ended with exit 0
BothDone(i, j) ==
    /\ i # j
    /\ procs[i].pc = "exit 0"
    /\ procs[j].pc = "exit 0"

\* both were given the same generated prefix and made an entry of their own
SamePrefix(i, j) ==
    /\ BothDone(i, j)
    /\ procs[i].gen # <<>>
    /\ procs[i].gen = procs[j].gen
    /\ procs[i].type = procs[j].type
    /\ TargetOf(config, procs[i]) # TargetOf(config, procs[j])

\* the entries of both are in the vault, side by side, with the same prefix
Siblings(i, j) ==
    LET a == TargetOf(config, procs[i])
        b == TargetOf(config, procs[j])
    IN  /\ a \in dirs
        /\ b \in dirs
        /\ Dirname(a) = Dirname(b)
        /\ PrefixPart(a[Len(a)]) = PrefixPart(b[Len(b)])

\* process i makes its writeFileSync call in this step
Writes(i) ==
    /\ At(i, "new", "write")
    /\ procs'[i] # procs[i]

\* C20: nothing keeps two interleaved `new` invocations apart. Two that were
\* given the same generated prefix both end with exit 0 and leave two sibling
\* entries with that prefix; and an invocation that passed its existence check
\* writes its content to its file whatever is there by then, so that of two
\* that passed the check for one path the later write replaces the earlier
InterleavedNewsRace ==
    /\ [](\A i, j \in DOMAIN procs : SamePrefix(i, j) => Siblings(i, j))
    /\ [][\A i \in DOMAIN procs :
            Writes(i) => /\ FilePathOf(config, procs[i]) \in DOMAIN files'
                         /\ files'[FilePathOf(config, procs[i])] = ContentOf(config, procs[i])]_vars

\* both scanned before either created, were given the same prefix, and left
\* two siblings
WitnessSamePrefixTwice ==
    \E i, j \in DOMAIN procs :
      /\ SamePrefix(i, j)
      /\ Siblings(i, j)
      /\ procs[i].existingPrefixes = {}
      /\ procs[j].existingPrefixes = {}

\* both passed the check for one path, and the note of the first is replaced
WitnessOverwritten ==
    \E i, j \in DOMAIN procs :
      /\ BothDone(i, j)
      /\ procs[i].type = "resource"
      /\ procs[j].type = "resource"
      /\ procs[i].title # procs[j].title
      /\ TargetOf(config, procs[i]) = TargetOf(config, procs[j])
      /\ files[TargetOf(config, procs[j])] = ContentOf(config, procs[j])

(***************************************************************************)
(* Properties of `new post`                                                *)
(***************************************************************************)
\* no entry of the areas root has a name that starts with <prefix>_
NoAreaWith(prefix) == FindIn(dirs, files, AreasDir(config), prefix) = {}

\* every `new post [title] --area <prefix>` exits 1 and changes nothing
PostRefused(prefix) ==
    \A title \in Titles :
      \A o \in NewCommand(config, dirs, files, "post", title, ItemOptions("post", prefix)) :
        o.exit = 1 /\ Unchanged(o)

\* C21: `new post` exits 1 and writes no file whenever no entry of the areas
\* root has a name that starts with <area-prefix>_, the areas root being
\* there or not
PostNeedsItsArea ==
    \A prefix \in PrefixInputs : NoAreaWith(prefix) => PostRefused(prefix)

\* the same where the areas root is a directory of the vault
PostNeedsItsAreaUnderRoot ==
    \A prefix \in PrefixInputs :
      existsSync(dirs, files, AreasDir(config)) /\ NoAreaWith(prefix) => PostRefused(prefix)

(***************************************************************************)
(* Properties of the template `new` uses                                   *)
(***************************************************************************)
\* the template name the flags select
Selected(in) ==
    IF in.type = "episode" /\ in.opts.solo THEN "solo_episode"
    ELSE IF in.type = "scratch" /\ in.opts.atRoot THEN "scratch_root"
    ELSE IF in.type = "resource" /\ in.opts.prefix # <<>> THEN "resource_folder"
    ELSE in.type

\* the folders --prefix may stand for, and none
FoldersOf(in) == { <<>> } \cup ParentFolders(config, dirs, files, in.opts.prefix)

\* the prefix given, else one that is generated, else none
PrefixesOf(in) ==
    IF in.opts.prefix # <<>> THEN { in.opts.prefix } ELSE TwoLetters \cup { <<>> }

\* the file path or folder pattern of the template `name`, rendered for `in`
PathsBy(name, in) ==
    LET template == config.templates[name]
        pattern  == IF template.filePath # <<>> THEN template.filePath
                    ELSE template.folderPattern
    IN  { PathOf(renderTemplate(pattern,
              RenderVars(in.type, in.title, slugify(in.title),
                         [in.opts EXCEPT !.folder = f], prefix,
                         <<>>, <<>>, <<>>))) : f \in FoldersOf(in), prefix \in PrefixesOf(in) }

\* `new resource --prefix` where the resources root has an entry of the prefix
IntoExisting(in) ==
    /\ in.type = "resource"
    /\ in.opts.prefix # <<>>
    /\ FindIn(dirs, files, ResourcesDir(config), in.opts.prefix) # {}

\* one note of the flat-file template, in an entry of the prefix
NoteInEntry(o, in) ==
    /\ \E d \in FindIn(dirs, files, ResourcesDir(config), in.opts.prefix) :
         o.path = ResourcesDir(config) \o << d, slugify(in.title) \o <<".md">> >>
    /\ o.files[o.path].text =
         RenderContent(config.templates.resource.template,
                       RenderVars("resource", in.title, slugify(in.title), in.opts,
                                  in.opts.prefix, <<>>, <<>>, <<>>))

\* what `new` makes comes from the selected template, and without that
\* template it exits 1 and changes nothing
TemplateIsUsed(exceptIntoExisting) ==
    \A in \in SelectInputs :
      \A o \in NewCommand(config, dirs, files, in.type, in.title, in.opts) :
        IF exceptIntoExisting /\ IntoExisting(in)
        THEN /\ o.exit = 0 => NoteInEntry(o, in)
             /\ ~ HasTemplate(config, "resource") => o.exit = 1 /\ Unchanged(o)
        ELSE /\ o.exit = 0 => /\ HasTemplate(config, Selected(in))
                              /\ o.path \in PathsBy(Selected(in), in)
             /\ ~ HasTemplate(config, Selected(in)) => o.exit = 1 /\ Unchanged(o)

\* C22 as stated: the template `new` uses is the one selected by the type and
\* the flags (solo_episode, scratch_root, resource_folder, else the type's
\* own), and without it `new` exits 1 and changes nothing
TemplateFollowsFlags == TemplateIsUsed(FALSE)

\* C22, amended: the same, except that `new resource --prefix p` where an
\* entry p_... exists writes one note of the `resource` template into that
\* entry
TemplateFollowsFlagsButForExisting == TemplateIsUsed(TRUE)

\* a solo episode was made of solo_episode, in the area and not under guests/
WitnessSoloEpisode ==
    /\ HasTemplate(config, "solo_episode")
    /\ \E p \in DOMAIN files : p = << <<"01_areas">>, DefaultArea, << "t", ".md" >> >>

(***************************************************************************)
(* Properties of `new resource --prefix`                                   *)
(***************************************************************************)
\* the `new resource <title> --prefix p` invocations
PrefixedResources ==
    { in \in SelectInputs : in.type = "resource" /\ in.opts.prefix # <<>> }

\* <slug>.md directly inside the entry d of the resources root
NoteIn(d, in) == ResourcesDir(config) \o << d, slugify(in.title) \o <<".md">> >>

\* o is the vault with the one file p more, and no directory more
OneFileMore(o, p) ==
    /\ o.dirs = dirs
    /\ DOMAIN o.files = DOMAIN files \cup {p}
    /\ p \notin DOMAIN files
    /\ \A q \in DOMAIN files : o.files[q] = files[q]

\* the names of the resources root that are folders
ResourceFolders ==
    { d \in Listing(dirs, files, ResourcesDir(config)) : ResourcesDir(config) \o <<d>> \in dirs }

\* with an entry p_... in the resources root, `new resource <title> --prefix p`
\* makes <slug>.md inside it and nothing else, or exits 1 and changes nothing
\* when that file exists; a fresh folder is made only when there is no entry
ResourceGoesInto(foldersOnly) ==
    \A in \in PrefixedResources :
      LET found == FindIn(dirs, files, ResourcesDir(config), in.opts.prefix)
      IN  (foldersOnly => found \subseteq ResourceFolders) =>
          \A o \in NewCommand(config, dirs, files, in.type, in.title, in.opts) :
            IF found # {}
            THEN \E d \in found :
                   IF existsSync(dirs, files, NoteIn(d, in))
                   THEN o.exit = 1 /\ Unchanged(o)
                   ELSE HasTemplate(config, "resource")
                          => o.exit = 0 /\ OneFileMore(o, NoteIn(d, in))
            ELSE o.exit = 0 => o.path \in o.dirs \ dirs

\* C23: where the resources root has an entry whose name starts with p_,
\* `new resource <title> --prefix p` creates exactly <slug>.md inside that
\* entry and no folder, and exits 1 without a change when that file exists;
\* only without such an entry a fresh folder is made
ResourceGoesIntoEntry == ResourceGoesInto(FALSE)

\* the same where every entry p_... is a folder
ResourceGoesIntoFolder == ResourceGoesInto(TRUE)

\* a note was put into the folder of the prefix
WitnessNoteInFolder ==
    \E d \in ResourceFolders, p \in DOMAIN files :
      /\ p = ResourcesDir(config) \o << d, << "u", ".md" >> >>
      /\ StartsWith(d, << "a", "a", "_" >>)

(***************************************************************************)
(* Properties of `init`                                                    *)
(***************************************************************************)
\* the directories `init` is to make: the configured roots and the journal
WantedDirs == { PathOf(DirsToCreate(config)[k]) : k \in 1..Len(DirsToCreate(config)) }

\* after o every wanted directory is there, nothing that was there is gone
\* or changed but AGENTS.md, and the count reported is the number of wanted
\* directories that were not there
InitMakesAndCounts(o) ==
    /\ WantedDirs \subseteq o.dirs
    /\ dirs \subseteq o.dirs
    /\ \A p \in DOMAIN files : p \in DOMAIN o.files /\ (p # agentsMdPath => o.files[p] = files[p])
    /\ o.createdCount = Cardinality(WantedDirs \ dirs)
    /\ o.noneNeeded <=> o.createdCount = 0

\* C24: after `init` every configured root and the four journal paths exist,
\* no directory that existed was altered, and the count reported is the
\* number of those directories that did not exist before
InitCreatesAndCounts == InitMakesAndCounts(initVault(config, dirs, files))

\* the same under the configuration of the README
InitCreatesAndCountsByDefault ==
    config.roots = Roots => InitMakesAndCounts(initVault(config, dirs, files))

\* AGENTS.md before `init`, and after it
Existing == files[agentsMdPath].text
Written == initVault(config, dirs, files).files[agentsMdPath].text

\* the text is `before`, the section, `after`; the section is the first heading
HoldsSection(text, before, after) ==
    /\ text = before \o generateAgentsMd \o after
    /\ ~ Includes(before, ObsdMarker)

\* the ends a document may have after the section
Afters(withAfter) == IF withAfter THEN StringsOver({ "mine" }, MaxDocLen) ELSE { <<>> }

\* `init` writes AGENTS.md: with the section in it, the section alone is
\* replaced; without, the section is appended; without a document, the
\* document is the section
InitWritesSection(withAfter) ==
    IF agentsMdPath \notin DOMAIN files THEN Written = generateAgentsMd
    ELSE IF ~ Includes(Existing, ObsdMarker)
         THEN Written = Existing \o << "\n" >> \o generateAgentsMd
         ELSE \A before \in StringsOver(DocTokens, MaxDocLen), after \in Afters(withAfter) :
                HoldsSection(Existing, before, after)
                  => Written = before \o generateAgentsMd \o after

\* C25: `init` replaces only the marked section of AGENTS.md, what is before
\* the heading and what is outside the section staying as it was; appends the
\* section to a document without it; creates the document as the section
InitReplacesOnlyTheSection == InitWritesSection(TRUE)

\* the same for documents that end with the section
InitReplacesTheLastSection == InitWritesSection(FALSE)

\* C30: a second `init` on the vault a first `init` left makes no directory,
\* reports that all directories exist and writes AGENTS.md as it is
InitIsIdempotent ==
    LET first  == initVault(config, dirs, files)
        second == initVault(config, first.dirs, first.files)
    IN  /\ second.dirs = first.dirs
        /\ second.createdCount = 0
        /\ second.noneNeeded
        /\ second.files = first.files

\* `init` has run on a document of the user: the text, then the section
WitnessInitRan ==
    /\ WantedDirs \subseteq dirs
    /\ agentsMdPath \in DOMAIN files
    /\ Existing = << "mine", "\n" >> \o generateAgentsMd

(***************************************************************************)
(* Properties of a multi-file `new` that fails on the way                  *)
(***************************************************************************)
\* the invocation made a folder and ended when its k-th writeFileSync threw
FailedAtWrite(proc) ==
    /\ proc.cmd = "new"
    /\ proc.pc = "exit 1"
    /\ proc.k >= 1
    /\ ~ IsSingle(config, proc)

\* the folder is there with the declared files before the k-th, and without
\* the k-th
PartlyMade(proc) ==
    LET folder == TargetOf(config, proc)
        fileDefs == TemplateOf(config, proc).files
    IN  /\ folder \in dirs
        /\ \A n \in 1..(proc.k - 1) : folder \o PathOf(fileDefs[n].name) \in DOMAIN files
        /\ folder \o PathOf(fileDefs[proc.k].name) \notin DOMAIN files

\* the same `new` once more, as one invocation
Retry(proc) ==
    NewCommand(config, dirs, files, proc.type, proc.title, OptionsOf(proc))

\* the retry cannot render the folder again: its prefix is drawn afresh, or
\* the note goes into the folder the failed run left
RetryGoesElsewhere(proc, o) ==
    \/ /\ proc.type \in {"project", "area"}
       /\ proc.prefix = <<>>
       /\ config = PrefixedConfig
       /\ o.gen # proc.gen
       /\ o.path # TargetOf(config, proc)
       /\ o.path \notin dirs
    \/ /\ proc.type = "resource"
       /\ o.path = TargetOf(config, proc) \o << slugify(OrElse(proc.title, Untitled)) \o <<".md">> >>

\* a multi-file `new` whose k-th write fails leaves the folder and the files
\* written before, and exits 1; the retry exits 1 and changes nothing
PartialCreation(retryMayGoElsewhere) ==
    \A i \in DOMAIN procs :
      FailedAtWrite(procs[i]) =>
        /\ PartlyMade(procs[i])
        /\ \A o \in Retry(procs[i]) :
             \/ o.exit = 1 /\ Unchanged(o)
             \/ retryMayGoElsewhere /\ o.exit = 0 /\ RetryGoesElsewhere(procs[i], o)

\* C26 as stated: the folder and the N-1 files remain, the process ends with a
\* status other than 0, and a retry of the same `new` fails
RetryFailsOnTheFolder == PartialCreation(FALSE)

\* C26, amended: the same, but the retry fails only where it comes to the same
\* folder or prefix again: a retry with a generated prefix makes a second
\* folder, and a retry of `new resource --prefix` puts its note into the
\* folder that was left
RetryFailsOnTheSameFolder == PartialCreation(TRUE)

\* a project was left with index.md and without quicklinks.md
WitnessPartlyMade ==
    \E i \in DOMAIN procs :
      /\ FailedAtWrite(procs[i])
      /\ procs[i].type = "project"
      /\ procs[i].k = 2
      /\ PartlyMade(procs[i])

\* C27: `mark` with a target status that is the status folder the item is in
\* (backlog, active or review) and that exits 0 leaves the item in place: the
\* file is still at its path and carries the tag of that status
MarkToSameStatusKeepsItem ==
    \A in \in MarkInputsOf(files) :
      LET st == ToLowerCase(in.status)
      IN  st \in { << "backlog" >>, << "active" >>, << "review" >> } =>
            \A o \in MarkOutcomes(config, dirs, files, in) :
              (o.exit = 0 /\ StatusOf(o.src) = st) =>
                /\ o.src \in DOMAIN o.files
                /\ IndexOf(o.files[o.src].text, << "- status/" >> \o st) # 0

\* C28: `mark --status done` never overwrites a different file: when the done
\* folder already holds a file of the destination name (another item of the
\* container with the same slug, marked done before), a mark that exits 0
\* leaves that file's content in the vault beside the content of the item moved
MarkDoneKeepsBoth ==
    \A in \in MarkInputsOf(files) :
      ToLowerCase(in.status) = << "done" >> =>
        \A o \in MarkOutcomes(config, dirs, files, in) :
          o.exit = 0 =>
            LET name == o.src[Len(o.src)]
                dest == StatusArea(o.src) \o << << "done" >>, Rest(name, in.item) >>
            IN  (dest \in DOMAIN files /\ dest # o.src) =>
                  /\ files[dest].origin \in Origins(o.files)
                  /\ files[o.src].origin \in Origins(o.files)

\* the items in a done folder: `new` made them as <code>_<slug>.md in backlog,
\* and only `mark --status done` brings a file there
DoneItems == { p \in Items : StatusOf(p) = << "done" >> }

\* the `mark` invocations that could locate a done item: besides the usual
\* ones, for each done item those whose --item is the start of its name
TerminalInputs ==
    MarkInputsOf(files)
    \cup UNION { { [type |-> t, prefix |-> in.prefix,
                    item |-> SubSeq(p[Len(p)], 1, n), status |-> st] :
                     t \in { "work", "post" }, in \in ParentInputs,
                     n \in { k \in 1..3 : k <= Len(p[Len(p)]) },
                     st \in validStatuses } : p \in DoneItems }

\* the titles tried for the name of a done item, with underscores in them
TerminalTitles ==
    { << >>, << "_" >>, << "a", "_" >>, << "a", "b", "_", "c" >>,
      << "a", "b", "c", "_" >>, << "A", "_", "_", "b" >>, << "_", "a", " ", "_" >> }

\* C29: done is terminal. The name of a done item is the slug of its title and
\* ".md", and a slug holds no underscore; so no `mark`, whatever its prefix,
\* item code and status, finds a done item as its source, and every done item
\* is at its path after the command
DoneIsTerminal ==
    /\ \A t \in TerminalTitles, code \in { TwoChars(0), ThreeChars(0) } :
         LET made == code \o << "_" >> \o slugify(t) \o << ".md" >>
         IN  ~ Includes(TargetFileName(made, code, << "done" >>), "_")
    /\ \A in \in TerminalInputs :
         \A o \in MarkOutcomes(config, dirs, files, in) :
           \A p \in DoneItems :
             /\ o.exit = 0 => o.src # p
             /\ p \in DOMAIN o.files

\* a work item is in a done folder, under a name of two parts or more, while
\* another item of the same parent is in backlog
WitnessDoneAndOpen ==
    \E p \in DoneItems, q \in Items :
      /\ Len(p[Len(p)]) >= 2
      /\ StatusArea(q) = StatusArea(p)
      /\ StatusOf(q) = << "backlog" >>

====
